---- MODULE Spec2Model ----
(***************************************************************************)
(* Verification model of the edge agent (consus-energy/edge-logic):        *)
(*   - WriteGuard  (src/utils/write_guard.py): SpecWG, one caller at a     *)
(*     time, and SpecWGT, one worker thread per unit                       *)
(*   - EdgeState task store (src/core/edge_state.py): SpecTasks            *)
(*   - EMSManager  (src/battery_opt/ems_manager.py) writing through        *)
(*     BatteryUnit.safe_write and the WriteGuard: SpecEMS                  *)
(*   - SafetyCheck alert state machine                                     *)
(*     (src/battery_opt/safety_check.py): SpecAlerts                       *)
(*   - the supervisor loop (src/main.py), the bus events                   *)
(*     (src/core/mqtt_listener.py), the thread managers and the            *)
(*     controller ticks (src/core/controller.py): SpecSup                  *)
(*   - single calls and short races: in_charge_window (SpecWindow), the    *)
(*     WARNING batch of SafetyCheck (SpecBatch), on_message (SpecMsg), a   *)
(*     tick of decide against update_task (SpecSnap), determine_mode       *)
(*     (SpecMode), BackendPoster start and stop (SpecPoster), decide       *)
(*     (SpecDecide), a long watch of one alert (SpecBeat), two units       *)
(*     writing through their register interfaces (SpecUnits)               *)
(* Times are wall-clock milliseconds, powers are W.                        *)
(***************************************************************************)
EXTENDS Integers, Sequences, FiniteSets, TLC

VARIABLES
    clock,      \* real time (ms), what time.time() returns when it is read
    wg,         \* WriteGuard class state: _last_value, _last_write_ts, _window_start, _window_count
    lock,       \* holder of WriteGuard._lock, or NoUnit
    th,         \* per unit worker: its position inside WriteGuard.attempt
    landed,     \* history: per address, the last write action that succeeded
    wlog,       \* history: the instants of the succeeded write actions of the last second
    outcome,    \* history: how the last finished attempt ended
    store,      \* EdgeState.tasks_dynamic (dyn) and EdgeState.tasks_static (stat)
    curday,     \* the date in the operator timezone, datetime.now(self.tz).date()
    tnow,       \* the instant datetime.now(self.tz) returns
    nops,       \* number of store operations so far
    top,        \* history: what the last store operation met and left
    ems,        \* EMSManager: _commissioned, _last_setpoint_w, _last_setpoint_ts, _hold_until
    dev,        \* the inverter's registers, by register name
    cfg,        \* EdgeState.battery_configs[consus_id]
    settings,   \* EdgeState.settings
    nticks,     \* number of apply ticks so far
    applied,    \* history: what the last apply tick decided and wrote
    alert,      \* SafetyCheck.alerts["EMS_FAULT"]: the AlertState of one CRITICAL code
    intents,    \* len(SafetyCheck.intent_queue)
    ascan,      \* history: what the last health scan saw and did
    edge_status,      \* EdgeState.settings.get("edge_status"), Unset when the key is absent
    battery_configs,  \* EdgeState.battery_configs: unit -> battery_mode
    active_threads,   \* main(): the keys of its local active_threads dict
    tm_main,          \* main.thread_manager.threads: unit -> worker
    tm_mqtt,          \* mqtt_listener.thread_manager.threads: unit -> worker
    workers,          \* every worker thread started so far, with its controller
    hist,             \* history: the last controller tick and what preceded it
    wq,               \* the last in_charge_window call: what it met and returned
    wmon,             \* SafetyCheck: alerts["BMS_WARNING"], _batch, _last_batch_post
    whist,            \* history: the alerts emitted, the alerts the backend accepted
    mres,             \* history: the last bus message handled and how on_message ended
    snap,             \* a controller tick inside decide: what it has read so far
    mq,               \* history: the last determine_mode call and its result
    poster,           \* BackendPoster: its thread, _started, _stop_event, data_queue
    dq,               \* history: the last call of decide, its inputs and its result
    uw                \* history: what each unit's device received, the last write of a unit

wgVars == <<clock, wg, lock, th, landed, wlog, outcome>>
taskVars == <<store, curday, tnow, nops, top>>
emsVars == <<ems, dev, cfg, settings, nticks, applied>>
alertVars == <<alert, intents, ascan>>
supVars == <<edge_status, battery_configs, active_threads, tm_main, tm_mqtt, workers, hist>>
auxVars2 == <<dq, uw>>
auxVars == <<wq, wmon, whist, mres, snap, mq, poster, auxVars2>>
vars == <<clock, wg, lock, th, landed, wlog, outcome, store, curday, tnow, nops, top,
          ems, dev, cfg, settings, nticks, applied, alert, intents, ascan,
          edge_status, battery_configs, active_threads, tm_main, tm_mqtt, workers, hist,
          wq, wmon, whist, mres, snap, mq, poster, dq, uw>>

\* ------------------------------------------------------------------ bounds
MaxClockSteps == 10
MaxRaceSteps == 2
MaxInstant == 3
MaxOps == 3
MaxTicks == 3
MaxScans == 15
MaxWorkers == 3
MaxBatchScans == 10
MaxMsgs == 3
MaxSnapOps == 4
MaxModeCalls == 2
MaxPosterCalls == 6
MaxPosterQueue == 3
MaxBeatScans == 140
BeatHold == 124
MaxUnitWrites == 3
MaxUnitSteps == 3

\* ------------------------------------------------------------ WriteGuard
\* write_guard.py:14  MIN_INTERVAL_PER_REGISTER = 0.25 (s)
MIN_INTERVAL_PER_REGISTER == 250
\* write_guard.py:15  MAX_WRITES_PER_SEC = 5
MAX_WRITES_PER_SEC == 5
\* write_guard.py:28  "now - cls._window_start >= 1.0" (s)
WINDOW_MS == 1000

Units == {"u1", "u2"}
NoUnit == "none"
\* register addresses of the (shared) register map, and the values written
Addresses == {100, 101}
Values == {7, 8}

\* time.time() is epoch time: the class defaults (_window_start = 0.0,
\* _last_write_ts.get(address, 0)) lie more than a window in the past.
StartClock == WINDOW_MS
Quantum == MIN_INTERVAL_PER_REGISTER \div 2
MaxClock == StartClock + MaxClockSteps * Quantum

\* class attributes, write_guard.py:18-21
WGInit ==
    [last_value |-> <<>>, last_write_ts |-> <<>>, window_start |-> 0, window_count |-> 0]

\* dict.get(address) / dict.get(address, 0)
LastValueIs(g, address, value) ==
    address \in DOMAIN g.last_value /\ g.last_value[address] = value
LastTs(g, address) ==
    IF address \in DOMAIN g.last_write_ts THEN g.last_write_ts[address] ELSE 0

\* write_guard.py:28-30, global window accounting
WindowRoll(g, now) ==
    IF now - g.window_start >= WINDOW_MS
    THEN [g EXCEPT !.window_start = now, !.window_count = 0]
    ELSE g

\* Mutant of Decision: the dedupe only applies while the register interval runs.
DecisionDedupeExpires(g, address, value, now) ==
    IF now - LastTs(g, address) < MIN_INTERVAL_PER_REGISTER
    THEN (IF LastValueIs(g, address, value) THEN "dedupe" ELSE "interval")
    ELSE IF g.window_count >= MAX_WRITES_PER_SEC THEN "rate"
    ELSE "accept"

\* Mutant of Decision: the register interval has to be exceeded, not reached.
DecisionIntervalExclusive(g, address, value, now) ==
    IF LastValueIs(g, address, value) THEN "dedupe"
    ELSE IF now - LastTs(g, address) <= MIN_INTERVAL_PER_REGISTER THEN "interval"
    ELSE IF g.window_count >= MAX_WRITES_PER_SEC THEN "rate"
    ELSE "accept"

\* write_guard.py:32-44, the three drop rules in the code's order
Decision(g, address, value, now) ==
    IF LastValueIs(g, address, value) THEN "dedupe"
    ELSE IF now - LastTs(g, address) < MIN_INTERVAL_PER_REGISTER THEN "interval"
    ELSE IF g.window_count >= MAX_WRITES_PER_SEC THEN "rate"
    ELSE "accept"

\* write_guard.py:49-51, after write_callable() returned
Record(g, address, value, now) ==
    [g EXCEPT !.last_value = (address :> value) @@ @,
              !.last_write_ts = (address :> now) @@ @,
              !.window_count = @ + 1]

Idle == [pc |-> "idle", address |-> 0, value |-> 0, now |-> 0, at |-> 0]
NoOutcome ==
    [ret |-> FALSE, invoked |-> FALSE, raised |-> FALSE, surfaced |-> FALSE,
     dup |-> FALSE, aged |-> FALSE, kept |-> TRUE, due |-> FALSE]

\* history helpers
LandedValueIs(address, value) ==
    address \in DOMAIN landed /\ landed[address].value = value
LandedAged(address) ==
    address \in DOMAIN landed /\ clock - landed[address].at >= WINDOW_MS
LandedClose(address, at) ==
    address \in DOMAIN landed /\ at - landed[address].at < MIN_INTERVAL_PER_REGISTER
Recent(log, t) == SelectSeq(log, LAMBDA e : t - e < WINDOW_MS)
\* the attempt about to be decided differs from the last landed value of its
\* address, comes a register interval or more after the last landed write to
\* it (or there is none), and fewer than MAX_WRITES_PER_SEC writes landed
\* since the start of the guard's current window
Due(address, value) ==
    /\ ~LandedValueIs(address, value)
    /\ address \in DOMAIN landed =>
          clock - landed[address].at >= MIN_INTERVAL_PER_REGISTER
    /\ Len(SelectSeq(wlog, LAMBDA e : e >= WindowRoll(wg, clock).window_start))
          < MAX_WRITES_PER_SEC
Dropped(address, value) ==
    [ret |-> FALSE, invoked |-> FALSE, raised |-> FALSE, surfaced |-> FALSE,
     dup |-> LandedValueIs(address, value), aged |-> LandedAged(address), kept |-> TRUE,
     due |-> Due(address, value)]
Invoked(address, value) ==
    [ret |-> FALSE, invoked |-> TRUE, raised |-> FALSE, surfaced |-> FALSE,
     dup |-> LandedValueIs(address, value), aged |-> LandedAged(address), kept |-> TRUE,
     due |-> Due(address, value)]

\* write_guard.py:53-55, "except Exception as e: logger.error(...); return False":
\* the caller gets the same False a policy drop returns, no exception leaves attempt
Failed(o, g0, g1) ==
    [o EXCEPT !.ret = FALSE, !.raised = TRUE, !.surfaced = FALSE, !.kept = (g1 = g0)]

\* write_guard.py:24-55, WriteGuard.attempt run from its call to its return on
\* the guard state g; ok = write_callable() returns rather than raises.
\* res: "dropped" (a drop rule), "ok" (written and recorded), "raised".
AttemptOp(g, address, value, now, ok) ==
    LET g1 == WindowRoll(g, now)
        d == Decision(g1, address, value, now)
    IN IF d # "accept" THEN [g |-> g1, res |-> "dropped"]
       ELSE IF ok THEN [g |-> Record(g1, address, value, now), res |-> "ok"]
       ELSE [g |-> g1, res |-> "raised"]

\* ---------------------------------------------- one caller at a time (SpecWG)
\* write_guard.py:24-55, WriteGuard.attempt called and run to its return
Attempt(a, v, ok) ==
    LET r == AttemptOp(wg, a, v, clock, ok)
        g1 == WindowRoll(wg, clock)
    IN /\ wg' = r.g
       /\ IF r.res = "dropped"
          THEN /\ outcome' = Dropped(a, v)
               /\ UNCHANGED <<landed, wlog>>
          ELSE IF r.res = "ok"
          THEN /\ landed' = (a :> [value |-> v, at |-> clock,
                                   close |-> LandedClose(a, clock)]) @@ landed
               /\ wlog' = Append(Recent(wlog, clock), clock)
               /\ outcome' = [Invoked(a, v) EXCEPT !.ret = TRUE]
          ELSE /\ outcome' = Failed(Invoked(a, v), g1, wg')
               /\ UNCHANGED <<landed, wlog>>
       /\ UNCHANGED <<clock, lock, th, taskVars, emsVars, alertVars, supVars, auxVars>>

Advance ==
    /\ clock < MaxClock
    /\ clock' = clock + Quantum
    /\ wlog' = Recent(wlog, clock')
    /\ UNCHANGED <<wg, lock, th, landed, outcome, taskVars, emsVars, alertVars, supVars, auxVars>>

InitWG ==
    /\ clock = StartClock
    /\ wg = WGInit
    /\ lock = NoUnit
    /\ th = [u \in Units |-> Idle]
    /\ landed = <<>>
    /\ wlog = <<>>
    /\ outcome = NoOutcome

NextWG ==
    \/ \E a \in Addresses, v \in Values, ok \in BOOLEAN : Attempt(a, v, ok)
    \/ Advance

\* ------------------------------------- one worker thread per unit (SpecWGT)
\* write_guard.py:25, "now = time.time()" is read before the lock is taken
Stamp(u) ==
    /\ th[u].pc = "idle"
    /\ \E a \in Addresses, v \in Values :
         th' = [th EXCEPT ![u] = [pc |-> "stamped", address |-> a, value |-> v,
                                  now |-> clock, at |-> 0]]
    /\ UNCHANGED <<clock, wg, lock, landed, wlog, outcome, taskVars, emsVars, alertVars, supVars, auxVars>>

\* write_guard.py:26-48, "with cls._lock": window roll, the drop rules, and on
\* acceptance the call of write_callable() with the lock held
Enter(u) ==
    /\ th[u].pc = "stamped"
    /\ lock = NoUnit
    /\ LET t == th[u]
           g1 == WindowRoll(wg, t.now)
           d == Decision(g1, t.address, t.value, t.now)
       IN /\ wg' = g1
          /\ IF d = "accept"
             THEN /\ lock' = u
                  /\ th' = [th EXCEPT ![u].pc = "writing", ![u].at = clock]
                  /\ outcome' = Invoked(t.address, t.value)
             ELSE /\ lock' = NoUnit
                  /\ th' = [th EXCEPT ![u] = Idle]
                  /\ outcome' = Dropped(t.address, t.value)
    /\ UNCHANGED <<clock, landed, wlog, taskVars, emsVars, alertVars, supVars, auxVars>>

\* write_guard.py:48-55, write_callable() returns (ok) or raises; the lock is released
Finish(u) ==
    /\ th[u].pc = "writing"
    /\ lock = u
    /\ LET t == th[u] IN
       \E ok \in BOOLEAN :
         IF ok
         THEN /\ wg' = Record(wg, t.address, t.value, t.now)
              /\ landed' = (t.address :> [value |-> t.value, at |-> t.at,
                                          close |-> LandedClose(t.address, t.at)]) @@ landed
              /\ outcome' = [outcome EXCEPT !.ret = TRUE]
         ELSE /\ wg' = wg
              /\ UNCHANGED landed
              /\ outcome' = Failed(outcome, wg, wg')
    /\ lock' = NoUnit
    /\ th' = [th EXCEPT ![u] = Idle]
    /\ UNCHANGED <<clock, wlog, taskVars, emsVars, alertVars, supVars, auxVars>>

Tick ==
    /\ clock < StartClock + MaxRaceSteps * Quantum
    /\ clock' = clock + Quantum
    /\ UNCHANGED <<wg, lock, th, landed, wlog, outcome, taskVars, emsVars, alertVars, supVars, auxVars>>

NextWGT ==
    \/ \E u \in Units : Stamp(u)
    \/ \E u \in Units : Enter(u)
    \/ \E u \in Units : Finish(u)
    \/ Tick


\* ------------------------------ one register interface per unit (SpecUnits)
\* what the device of each unit received per address, and the last
\* write_register call: its unit, the guard's decision, and whether the
\* unit's own earlier writes give a reason to drop it (own)
NoUnitWrite ==
    [devs |-> [u \in Units |-> <<>>], n |-> 0, unit |-> NoUnit, address |-> 0, value |-> 0,
     res |-> "none", why |-> "none", own |-> FALSE]

\* modbus_registry.py:63-79, write_register of the interface of unit u: the
\* write goes through the class-wide WriteGuard.attempt, and _do_write sends it
\* to the device of u (unit=self.unit_id)
UnitWrite(u, a, v, ok) ==
    /\ uw.n < MaxUnitWrites
    /\ LET r == AttemptOp(wg, a, v, clock, ok)
           mine == uw.devs[u]
       IN /\ wg' = r.g
          /\ uw' = [devs |-> IF r.res = "ok"
                             THEN [uw.devs EXCEPT ![u] = (a :> [value |-> v, at |-> clock]) @@ @]
                             ELSE uw.devs,
                    n |-> uw.n + 1, unit |-> u, address |-> a, value |-> v,
                    res |-> r.res,
                    why |-> Decision(WindowRoll(wg, clock), a, v, clock),
                    own |-> /\ a \in DOMAIN mine
                            /\ \/ mine[a].value = v
                               \/ clock - mine[a].at < MIN_INTERVAL_PER_REGISTER]
    /\ UNCHANGED <<clock, lock, th, landed, wlog, outcome, taskVars, emsVars, alertVars,
                   supVars, wq, wmon, whist, mres, snap, mq, poster, dq>>

UnitAdvance ==
    /\ clock < StartClock + MaxUnitSteps * Quantum
    /\ clock' = clock + Quantum
    /\ UNCHANGED <<wg, lock, th, landed, wlog, outcome, taskVars, emsVars, alertVars,
                   supVars, auxVars>>

NextUnits ==
    \/ \E u \in Units, a \in Addresses, v \in Values, ok \in BOOLEAN : UnitWrite(u, a, v, ok)
    \/ UnitAdvance


\* ------------------------------------------------- EdgeState task store
\* Dates are day numbers, datetimes are instants of one monotone counter (tnow);
\* a parameter `today` is datetime.now(self.tz).date().
NoTime == 0 - 1
BadDay == 0 - 9
\* edge_state.py:27, fallback_max_days: int = 2
fallback_max_days == 2

TaskUnits == {"u1"}
Keys == {"", "k1", "k2"}
Revisions == {1, 2}
\* updated_at of a payload: absent, or a backend instant
UpdatedAts == {NoTime, 1}
WindowLists == {<< <<1410, 270>> >>}

\* The payloads a backend may send on the day `today`: every combination of
\* override, idempotency_key, revision and updated_at for today's slot, one
\* payload each for yesterday's and tomorrow's slot and one without a valid
\* service_day; static payloads with and without override; and no payload.
NullPayload == [task_type |-> "null"]
DynamicPayloads(today) ==
    [task_type : {"dynamic"}, service_day : {today}, charge_windows : WindowLists,
     max_import_limit : {0}, override : BOOLEAN, idempotency_key : Keys, revision : Revisions,
     updated_at : UpdatedAts]
    \cup
    [task_type : {"dynamic"}, service_day : {today - 1, today + 1, BadDay},
     charge_windows : WindowLists, max_import_limit : {0}, override : {FALSE},
     idempotency_key : {"k1"}, revision : {1}, updated_at : {1}]
    \cup
    [task_type : {"dynamic"}, service_day : {today}, charge_windows : {<<>>},
     max_import_limit : {0}, override : {TRUE}, idempotency_key : {"k2"},
     revision : {2}, updated_at : {1}]
StaticPayloads ==
    [task_type : {"static"}, service_day : {0}, charge_windows : WindowLists \cup {<<>>},
     max_import_limit : {0}, override : BOOLEAN, idempotency_key : {"k1"}, revision : {1},
     updated_at : {1}]
Payloads(today) == DynamicPayloads(today) \cup StaticPayloads \cup {NullPayload}

\* EdgeState.__init__, edge_state.py:36-39
EmptyStore == [dyn |-> <<>>, stat |-> <<>>]

DayMap(S, cid) == IF cid \in DOMAIN S.dyn THEN S.dyn[cid] ELSE <<>>
Restrict(f, D) == [x \in D |-> f[x]]
MaxOf(D) == CHOOSE x \in D : \A y \in D : y <= x

\* edge_state.py:284-292
GcKeepTodayTomorrow(S, today) ==
    LET kept(cid) == Restrict(S.dyn[cid], DOMAIN S.dyn[cid] \cap {today, today + 1})
        live == {cid \in DOMAIN S.dyn : DOMAIN kept(cid) # {}}
    IN [S EXCEPT !.dyn = [cid \in live |-> kept(cid)]]

\* edge_state.py:107-117, the static entry built from a payload
StaticEntry(p, now) ==
    [task_code |-> <<>>, task_type |-> "static",
     charge_window_start |-> IF p.charge_windows = <<>> THEN NoTime
                             ELSE p.charge_windows[1][1],
     charge_window_end |-> IF p.charge_windows = <<>> THEN NoTime
                           ELSE p.charge_windows[1][2],
     max_import_limit_kw |-> p.max_import_limit,
     override |-> p.override,
     updated_at |-> IF p.updated_at = NoTime THEN now ELSE p.updated_at,
     idempotency_key |-> p.idempotency_key, revision |-> p.revision]

\* edge_state.py:144-153, the dynamic entry built from a payload
DynamicEntry(cid, p, now) ==
    [task_code |-> <<cid, p.service_day>>, task_type |-> "dynamic",
     charge_windows |-> p.charge_windows,
     max_import_limit_kw |-> p.max_import_limit,
     override |-> p.override,
     updated_at |-> IF p.updated_at = NoTime THEN now ELSE p.updated_at,
     idempotency_key |-> p.idempotency_key, revision |-> p.revision]

\* Mutant of DynamicTakes: an existing override entry is never superseded by a
\* non-override payload, and same-key payloads win on a revision that is not lower.
DynamicTakesLooseRevision(entry, existing) ==
    IF entry.override /\ ~existing.override THEN TRUE
    ELSE IF entry.idempotency_key # "" /\ existing.idempotency_key # ""
            /\ entry.idempotency_key = existing.idempotency_key
         THEN entry.revision >= existing.revision
         ELSE TRUE

\* Mutant of DynamicTakes: a stored override entry is kept against a payload
\* without override.
DynamicTakesKeepsOverride(entry, existing) ==
    IF entry.override /\ ~existing.override THEN TRUE
    ELSE IF existing.override /\ ~entry.override THEN FALSE
    ELSE IF entry.idempotency_key # "" /\ existing.idempotency_key # ""
            /\ entry.idempotency_key = existing.idempotency_key
         THEN \/ entry.revision > existing.revision
              \/ entry.revision = existing.revision /\ entry.updated_at > existing.updated_at
         ELSE TRUE

\* edge_state.py:163-184, whether take_new(...) is called for an occupied slot
DynamicTakes(entry, existing) ==
    IF entry.override /\ ~existing.override THEN TRUE
    ELSE IF entry.idempotency_key # "" /\ existing.idempotency_key # ""
            /\ entry.idempotency_key = existing.idempotency_key
         THEN \/ entry.revision > existing.revision
              \/ entry.revision = existing.revision /\ entry.updated_at > existing.updated_at
         ELSE TRUE

\* Mutant of FallbackDynamicFromPrevious: the age of the last day is not checked.
FallbackIgnoresAge(S, cid, today, now) ==
    LET per_batt == DayMap(S, cid) IN
    IF DOMAIN per_batt = {} THEN S
    ELSE LET last_task == per_batt[MaxOf(DOMAIN per_batt)]
             copy(d) == [last_task EXCEPT !.task_code = Append(@, d), !.updated_at = now]
             missing == {today, today + 1} \ DOMAIN per_batt
             filled == [d \in DOMAIN per_batt \cup missing |->
                          IF d \in DOMAIN per_batt THEN per_batt[d] ELSE copy(d)]
         IN GcKeepTodayTomorrow([S EXCEPT !.dyn = (cid :> filled) @@ @], today)

\* edge_state.py:242-282, _fallback_dynamic_from_previous
FallbackDynamicFromPrevious(S, cid, today, now) ==
    LET per_batt == DayMap(S, cid) IN
    IF DOMAIN per_batt = {} THEN S
    ELSE LET last_day == MaxOf(DOMAIN per_batt)
             last_task == per_batt[last_day]
             copy(d) == [last_task EXCEPT !.task_code = Append(@, d), !.updated_at = now]
             missing == {today, today + 1} \ DOMAIN per_batt
             filled == [d \in DOMAIN per_batt \cup missing |->
                          IF d \in DOMAIN per_batt THEN per_batt[d] ELSE copy(d)]
         IN IF today - last_day > fallback_max_days THEN S
            ELSE GcKeepTodayTomorrow([S EXCEPT !.dyn = (cid :> filled) @@ @], today)

\* Mutant of StaticTakes: a stored override entry does not protect itself.
StaticTakesAlways(S, cid, entry) == TRUE

\* edge_state.py:119-124, whether a static entry replaces the stored one
StaticTakes(S, cid, entry) ==
    ~(cid \in DOMAIN S.stat /\ S.stat[cid].override /\ ~entry.override)

\* edge_state.py:71-188, update_task for one consus_id
UpdateTaskOp(S, cid, p, today, now) ==
    IF p = NullPayload THEN FallbackDynamicFromPrevious(S, cid, today, now)
    ELSE IF p.task_type = "static"
    THEN LET entry == StaticEntry(p, now) IN
         IF StaticTakes(S, cid, entry)
         THEN [S EXCEPT !.stat = (cid :> entry) @@ @]
         ELSE S
    ELSE IF p.service_day = BadDay THEN S
    ELSE LET entry == DynamicEntry(cid, p, now)
             per_batt == DayMap(S, cid)
             take == IF p.service_day \in DOMAIN per_batt
                     THEN DynamicTakes(entry, per_batt[p.service_day])
                     ELSE TRUE
             merged == IF take THEN (p.service_day :> entry) @@ per_batt ELSE per_batt
         IN GcKeepTodayTomorrow([S EXCEPT !.dyn = (cid :> merged) @@ @], today)

\* edge_state.py:197-207, complete_task
CompleteTaskOp(S, cid, which_day, today) ==
    LET daymap == DayMap(S, cid)
        popped == Restrict(daymap, DOMAIN daymap \ {which_day})
        S1 == IF which_day \in DOMAIN daymap
              THEN (IF DOMAIN popped = {}
                    THEN [S EXCEPT !.dyn = Restrict(@, DOMAIN @ \ {cid})]
                    ELSE [S EXCEPT !.dyn = (cid :> popped) @@ @])
              ELSE S
    IN GcKeepTodayTomorrow(S1, today)

Slot(S, cid, d) == IF d \in DOMAIN DayMap(S, cid) THEN DayMap(S, cid)[d] ELSE <<>>
HasSlot(S, cid, d) == d \in DOMAIN DayMap(S, cid)

NoTop == [kind |-> "none", occupied |-> FALSE, live |-> FALSE, overridden |-> FALSE,
          samekey |-> FALSE, newer |-> FALSE, took |-> FALSE, kept |-> FALSE,
          revdown |-> FALSE, fresh |-> FALSE, holds |-> FALSE,
          src |-> BadDay, filled |-> {}]

\* history: what the last update_task met in its slot and what it left there
TopOf(S, S1, cid, p, today, now) ==
    IF p.task_type = "static"
    THEN [NoTop EXCEPT !.kind = "static",
                       !.occupied = cid \in DOMAIN S.stat,
                       !.overridden = (cid \in DOMAIN S.stat /\ S.stat[cid].override
                                       /\ ~p.override),
                       !.kept = (S1 = S),
                       !.holds = (cid \in DOMAIN S1.stat
                                  /\ S1.stat[cid] = StaticEntry(p, now))]
    ELSE IF p.task_type = "null"
    THEN [NoTop EXCEPT !.kind = "null",
                       !.src = IF DOMAIN DayMap(S, cid) = {} THEN BadDay
                               ELSE MaxOf(DOMAIN DayMap(S, cid)),
                       !.filled = DOMAIN DayMap(S1, cid) \ DOMAIN DayMap(S, cid)]
    ELSE IF p.task_type # "dynamic" \/ p.service_day = BadDay
    THEN [NoTop EXCEPT !.kind = p.task_type]
    ELSE IF ~HasSlot(S, cid, p.service_day)
    THEN [NoTop EXCEPT !.kind = "dynamic", !.fresh = TRUE,
                       !.live = p.service_day \in {today, today + 1},
                       !.holds = (Slot(S1, cid, p.service_day) = DynamicEntry(cid, p, now))]
    ELSE LET E == Slot(S, cid, p.service_day)
             N == DynamicEntry(cid, p, now)
             after == Slot(S1, cid, p.service_day)
         IN [kind |-> "dynamic", occupied |-> TRUE,
             live |-> p.service_day \in {today, today + 1},
             overridden |-> E.override /\ ~p.override,
             samekey |-> /\ p.idempotency_key # ""
                         /\ p.idempotency_key = E.idempotency_key
                         /\ ~(p.override /\ ~E.override),
             newer |-> \/ p.revision > E.revision
                       \/ p.revision = E.revision /\ N.updated_at > E.updated_at,
             took |-> after = N /\ N # E,
             kept |-> after = E,
             revdown |-> after # <<>> /\ after.revision < E.revision,
             fresh |-> FALSE, holds |-> after = N, src |-> BadDay, filled |-> {}]

UpdateTask(cid, p) ==
    /\ nops < MaxOps
    /\ nops' = nops + 1
    /\ store' = UpdateTaskOp(store, cid, p, curday, tnow)
    /\ top' = TopOf(store, store', cid, p, curday, tnow)
    /\ UNCHANGED <<curday, tnow, wgVars, emsVars, alertVars, supVars, auxVars>>

CompleteTask(cid, d) ==
    /\ nops < MaxOps
    /\ nops' = nops + 1
    /\ store' = CompleteTaskOp(store, cid, d, curday)
    /\ top' = [NoTop EXCEPT !.kind = "complete"]
    /\ UNCHANGED <<curday, tnow, wgVars, emsVars, alertVars, supVars, auxVars>>

\* the wall clock moves on within the day
LaterSameDay ==
    /\ tnow < MaxInstant
    /\ tnow' = tnow + 1
    /\ top' = NoTop
    /\ UNCHANGED <<store, curday, nops, wgVars, emsVars, alertVars, supVars, auxVars>>

\* midnight in the operator timezone passes
NextDay ==
    /\ tnow < MaxInstant
    /\ tnow' = tnow + 1
    /\ curday' = curday + 1
    /\ top' = NoTop
    /\ UNCHANGED <<store, nops, wgVars, emsVars, alertVars, supVars, auxVars>>

InitTasks ==
    /\ store = EmptyStore
    /\ curday = 0
    /\ tnow = 0
    /\ nops = 0
    /\ top = NoTop

NextTasks ==
    \/ \E cid \in TaskUnits, p \in Payloads(curday) : UpdateTask(cid, p)
    \/ \E cid \in TaskUnits, d \in {curday - 1, curday, curday + 1} : CompleteTask(cid, d)
    \/ LaterSameDay
    \/ NextDay

\* ---------------------------------------------------- EMSManager (one unit)
\* ems_manager.py:7-8
AUTO_MODE == 1
IMPORT_AC_MODE == 4
DayMs == 24 * 60 * 60 * 1000
MinuteMs == 60 * 1000
NoTs == 0 - 1
EmsUnit == "u1"

\* int(x) of Python for the rational num/den, den > 0: truncation toward zero
IntTrunc(num, den) == IF num >= 0 THEN num \div den ELSE 0 - ((0 - num) \div den)
Abs(x) == IF x < 0 THEN 0 - x ELSE x
Min2(a, b) == IF a < b THEN a ELSE b
Max2(a, b) == IF a > b THEN a ELSE b

\* Mutant of GetChargeWindows: a dynamic entry without windows lets the
\* static window through.
GetChargeWindowsSkipsEmptyDynamic(S, cid, which_day) ==
    IF HasSlot(S, cid, which_day) /\ Slot(S, cid, which_day).charge_windows # <<>>
    THEN Slot(S, cid, which_day).charge_windows
    ELSE IF cid \in DOMAIN S.stat /\ S.stat[cid].charge_window_start # NoTime
            /\ S.stat[cid].charge_window_end # NoTime
         THEN << <<S.stat[cid].charge_window_start, S.stat[cid].charge_window_end>> >>
         ELSE <<>>

\* edge_state.py:218-239, get_charge_windows
GetChargeWindows(S, cid, which_day) ==
    IF HasSlot(S, cid, which_day) THEN Slot(S, cid, which_day).charge_windows
    ELSE IF cid \in DOMAIN S.stat /\ S.stat[cid].charge_window_start # NoTime
            /\ S.stat[cid].charge_window_end # NoTime
         THEN << <<S.stat[cid].charge_window_start, S.stat[cid].charge_window_end>> >>
         ELSE <<>>

\* edge_state.py:191-195, get_task: the entry, or NoTask for None
NoTask == <<>>
GetTask(S, cid, which_day) ==
    IF HasSlot(S, cid, which_day) THEN Slot(S, cid, which_day)
    ELSE IF cid \in DOMAIN S.stat THEN S.stat[cid]
    ELSE NoTask

\* edge_state.py:209-216, get_task_type: "dynamic", "static", or "none" for None
GetTaskType(S, cid, which_day) ==
    IF which_day \in DOMAIN DayMap(S, cid) THEN "dynamic"
    ELSE IF cid \in DOMAIN S.stat THEN "static"
    ELSE "none"

\* edge_state.py:191-195, get_task(...).get("max_import_limit_kw"); 0 when
\* there is no task or no limit
GetTaskCapKw(S, cid, which_day) ==
    IF HasSlot(S, cid, which_day) THEN Slot(S, cid, which_day).max_import_limit_kw
    ELSE IF cid \in DOMAIN S.stat THEN S.stat[cid].max_import_limit_kw
    ELSE 0

\* a variant of the window test in which a window never wraps midnight
CoversNoWrap(w, tod) ==
    w[1] * MinuteMs <= tod /\ tod < w[2] * MinuteMs

\* ems_manager.py:109-115, one window (s, e) in minutes of the day against the
\* time of day (ms): [s, e), or [s, 24:00) and [00:00, e) when s > e
Covers(w, tod) ==
    IF w[1] <= w[2]
    THEN w[1] * MinuteMs <= tod /\ tod < w[2] * MinuteMs
    ELSE tod >= w[1] * MinuteMs \/ tod < w[2] * MinuteMs

\* ems_manager.py:104-116, in_charge_window
InChargeWindow(windows, tod) ==
    \E i \in 1 .. Len(windows) : Covers(windows[i], tod)

\* Mutant of CurrentWindowEndDt: the end is always taken on the day of now_dt.
CurrentWindowEndDtSameDay(windows, now_dt) ==
    LET tod == now_dt % DayMs
        day0 == now_dt - tod
        hits == {i \in 1 .. Len(windows) : Covers(windows[i], tod)}
    IN IF hits = {} THEN NoTs
       ELSE day0 + windows[CHOOSE i \in hits : \A j \in hits : i <= j][2] * MinuteMs

\* ems_manager.py:118-138, _current_window_end_dt: the end of the first
\* covering window, or NoTs
CurrentWindowEndDt(windows, now_dt) ==
    LET tod == now_dt % DayMs
        day0 == now_dt - tod
        hits == {i \in 1 .. Len(windows) : Covers(windows[i], tod)}
    IN IF hits = {} THEN NoTs
       ELSE LET w == windows[CHOOSE i \in hits : \A j \in hits : i <= j]
            IN IF w[1] > w[2] /\ tod >= w[1] * MinuteMs
               THEN day0 + DayMs + w[2] * MinuteMs
               ELSE day0 + w[2] * MinuteMs

\* Mutant of Decide: outside every window a hold that has not passed keeps
\* the unit in Import-AC with setpoint 0.
DecideHoldsOutsideWindow(S, st, hold_until, soc, pv_power, now_dt) ==
    LET today == now_dt \div DayMs
        windows == GetChargeWindows(S, EmsUnit, today)
        cap == GetTaskCapKw(S, EmsUnit, today) * 1000
        base == st.import_charge_power_w
        eff0 == IF base > 0 THEN Max2(base - pv_power, st.min_import_w) ELSE 0
        eff == IF cap > 0 THEN Min2(eff0, cap) ELSE eff0
    IN IF InChargeWindow(windows, now_dt % DayMs)
       THEN IF soc * 10 >= st.target_soc_percent * 99
            THEN [mode |-> IMPORT_AC_MODE, xset |-> 0,
                  hold_until |-> IF hold_until = NoTs \/ now_dt >= hold_until
                                 THEN CurrentWindowEndDt(windows, now_dt)
                                 ELSE hold_until]
            ELSE [mode |-> IMPORT_AC_MODE, xset |-> Max2(0, eff), hold_until |-> hold_until]
       ELSE IF hold_until # NoTs /\ now_dt < hold_until
       THEN [mode |-> IMPORT_AC_MODE, xset |-> 0, hold_until |-> hold_until]
       ELSE [mode |-> AUTO_MODE, xset |-> 0, hold_until |-> NoTs]

\* ems_manager.py:147-197, decide: soc in 1/1000, powers in W.
\* Returns the mode, the setpoint and the new _hold_until.
Decide(S, st, hold_until, soc, pv_power, now_dt) ==
    LET today == now_dt \div DayMs
        windows == GetChargeWindows(S, EmsUnit, today)
        cap_kw == GetTaskCapKw(S, EmsUnit, today)
        cap == cap_kw * 1000
        base == st.import_charge_power_w
        eff0 == IF base > 0 THEN Max2(base - pv_power, st.min_import_w) ELSE 0
        eff == IF cap > 0 THEN Min2(eff0, cap) ELSE eff0
    IN IF InChargeWindow(windows, now_dt % DayMs)
       THEN IF soc * 10 >= st.target_soc_percent * 99
            THEN [mode |-> IMPORT_AC_MODE, xset |-> 0,
                  hold_until |-> IF hold_until = NoTs \/ now_dt >= hold_until
                                 THEN CurrentWindowEndDt(windows, now_dt)
                                 ELSE hold_until]
            ELSE [mode |-> IMPORT_AC_MODE, xset |-> Max2(0, eff), hold_until |-> hold_until]
       ELSE [mode |-> AUTO_MODE, xset |-> 0, hold_until |-> NoTs]

\* ems_manager.py:204-209: unit config first, then global settings; 0 = unset
EffectiveMaxChargeW(bcfg, st) ==
    IF bcfg.max_charge_w # 0 THEN bcfg.max_charge_w ELSE st.max_charge_w
EffectiveRampRate(bcfg, st) ==
    IF bcfg.max_ramp_rate_w_per_s # 0 THEN bcfg.max_ramp_rate_w_per_s
    ELSE st.max_ramp_rate_w_per_s

\* ems_manager.py:214-219, no negative request, clamp to max_charge_w
Clamp(xset, max_charge_w) ==
    LET x0 == IF xset < 0 THEN 0 ELSE xset
    IN IF max_charge_w > 0 /\ x0 > max_charge_w THEN max_charge_w ELSE x0

\* Mutant of Ramp: only a rising setpoint is rate limited.
RampUpOnly(xset, ramp_rate, last_w, last_ts, now_ts) ==
    IF ramp_rate > 0 /\ last_ts # NoTs
    THEN LET dt == Max2(1, now_ts - last_ts)
             delta == xset - last_w
         IN IF delta * 1000 > ramp_rate * dt
            THEN IntTrunc(last_w * 1000 + ramp_rate * dt, 1000)
            ELSE xset
    ELSE xset

\* ems_manager.py:221-229, ramp limitation: dt = max(0.001, now - last) s,
\* max_delta = ramp_rate * dt, ramped = int(last + direction * max_delta)
Ramp(xset, ramp_rate, last_w, last_ts, now_ts) ==
    IF ramp_rate > 0 /\ last_ts # NoTs
    THEN LET dt == Max2(1, now_ts - last_ts)
             delta == xset - last_w
             direction == IF delta > 0 THEN 1 ELSE 0 - 1
         IN IF Abs(delta) * 1000 > ramp_rate * dt
            THEN IntTrunc(last_w * 1000 + direction * ramp_rate * dt, 1000)
            ELSE xset
    ELSE xset

\* battery_unit.py:77-82 and modbus_registry.py:63-79: safe_write of each
\* (register, value) in turn through WriteGuard.attempt at the instant now;
\* bus_ok = the field-bus write succeeds. Returns the guard, the device
\* registers and the set of registers a write landed on.
RECURSIVE SafeWrites(_, _, _, _, _)
SafeWrites(g, regs, writes, now, bus_ok) ==
    IF writes = <<>> THEN [g |-> g, dev |-> regs, landed |-> {}]
    ELSE LET w == Head(writes)
             r == AttemptOp(g, w[1], w[2], now, bus_ok)
             regs1 == IF r.res = "ok" THEN [regs EXCEPT ![w[1]] = w[2]] ELSE regs
             rest == SafeWrites(r.g, regs1, Tail(writes), now, bus_ok)
         IN [rest EXCEPT !.landed = IF r.res = "ok" THEN @ \cup {w[1]} ELSE @]

\* ems_manager.py:26-52, the commissioning writes
CommissionWrites(st) ==
    << <<"manufacturer_code", 2>>, <<"feed_power_enable", 1>>,
       <<"export_power_cap", st.export_cap_w>> >>
    \o (IF st.external_meter THEN << <<"external_meter_enable", 1>> >> ELSE <<>>)
    \o << <<"meter_target_power_offset", st.meter_bias_w>> >>

\* ems_manager.py:257-273, auto bias trim (deadband_w 30, step_w 10 by default)
BiasTrimWrites(st, mode, meter_p, regs, bus_ok) ==
    IF st.auto_bias_trim /\ mode = AUTO_MODE /\ Abs(meter_p - 0) > 30
    THEN LET current_bias == IF bus_ok THEN regs["meter_target_power_offset"] ELSE 0
             adj == IF meter_p > 0 THEN 10 ELSE 0 - 10
             new_bias == Max2(0 - 500, Min2(500, current_bias + adj))
         IN IF new_bias # current_bias
            THEN << <<"meter_target_power_offset", new_bias>> >> ELSE <<>>
    ELSE <<>>

\* ems_manager.py:199-274, EMSManager.apply. e is the manager's state
\* (_commissioned, _last_setpoint_w, _last_setpoint_ts, _hold_until), now_dt is
\* datetime.now(EDGE_STATE.tz) and now_ts the epoch time of the same instant.
ApplyOp(e, g, regs, S, bcfg, st, soc, meter_p, pv_power, now_dt, now_ts, bus_ok) ==
    LET c == IF e.commissioned THEN [g |-> g, dev |-> regs, landed |-> {}]
             ELSE SafeWrites(g, regs, CommissionWrites(st), now_ts, bus_ok)
        d == Decide(S, st, e.hold_until, soc, pv_power, now_dt)
        max_charge_w == EffectiveMaxChargeW(bcfg, st)
        ramp_rate == EffectiveRampRate(bcfg, st)
        clamped == Clamp(d.xset, max_charge_w)
        xset == IF d.mode = IMPORT_AC_MODE
                THEN Ramp(clamped, ramp_rate, e.last_setpoint_w, e.last_setpoint_ts, now_ts)
                ELSE d.xset
        current_mode == IF bus_ok THEN c.dev["ems_power_mode"] ELSE NoTs
        modeW == IF current_mode # d.mode THEN << <<"ems_power_mode", d.mode>> >> ELSE <<>>
        setW == << <<"ems_power_set", IF d.mode = IMPORT_AC_MODE THEN xset ELSE 0>> >>
        w == SafeWrites(c.g, c.dev, modeW \o setW, now_ts, bus_ok)
        b == SafeWrites(w.g, w.dev, BiasTrimWrites(st, d.mode, meter_p, w.dev, bus_ok),
                        now_ts, bus_ok)
    IN [e |-> [commissioned |-> TRUE,
               last_setpoint_w |-> IF d.mode = IMPORT_AC_MODE THEN xset ELSE 0,
               last_setpoint_ts |-> now_ts,
               hold_until |-> d.hold_until],
        g |-> b.g, dev |-> b.dev,
        mode |-> d.mode, dec_xset |-> d.xset,
        limited |-> d.mode = IMPORT_AC_MODE /\ xset # clamped,
        set_value |-> IF d.mode = IMPORT_AC_MODE THEN xset ELSE 0,
        set_landed |-> "ems_power_set" \in w.landed,
        comm_landed |-> c.landed = {CommissionWrites(st)[i][1] :
                                       i \in 1 .. Len(CommissionWrites(st))},
        max_charge_w |-> max_charge_w, ramp_rate |-> ramp_rate]

\* ------------------------------------------------ the EMS tick (SpecEMS)
\* The local wall clock reads 23:29:58.5 of day 0 when the model starts.
LocalOffset == (23 * 60 + 30) * MinuteMs - 1500 - StartClock
Local(t) == t + LocalOffset

RegisterNames ==
    {"manufacturer_code", "feed_power_enable", "export_power_cap", "external_meter_enable",
     "meter_target_power_offset", "ems_power_mode", "ems_power_set"}

\* EdgeState.settings = {} (edge_state.py:32) read through the defaults of
\* settings.get(...) in ems_manager.py:36-45,160-162,205-209,258
DefaultSettings ==
    [target_soc_percent |-> 100, import_charge_power_w |-> 0, min_import_w |-> 0,
     max_charge_w |-> 0, max_ramp_rate_w_per_s |-> 0, auto_bias_trim |-> FALSE,
     export_cap_w |-> 0, external_meter |-> TRUE, meter_bias_w |-> 0 - 50]
SettingsChoices ==
    {[DefaultSettings EXCEPT !.import_charge_power_w = 3000, !.max_ramp_rate_w_per_s = 500],
     [DefaultSettings EXCEPT !.import_charge_power_w = 1000, !.min_import_w = 600,
                             !.max_charge_w = 2500, !.auto_bias_trim = TRUE,
                             !.target_soc_percent = 80]}
\* EdgeState.battery_configs.get(consus_id, {}) (edge_state.py:58-59)
DefaultCfg == [max_charge_w |-> 0, max_ramp_rate_w_per_s |-> 0]
CfgChoices ==
    {[max_charge_w |-> 200, max_ramp_rate_w_per_s |-> 333],
     [max_charge_w |-> 3000, max_ramp_rate_w_per_s |-> 0]}
\* what a tick meets: soc in 1/1000, PV power and meter power in W, and
\* whether the field bus answers (bus_ok) or every read and write on it raises
TickInputs ==
    {[soc |-> 500, pv_power |-> 500, meter_p |-> 100, bus_ok |-> TRUE],
     [soc |-> 1000, pv_power |-> 0, meter_p |-> 0, bus_ok |-> TRUE],
     [soc |-> 500, pv_power |-> 500, meter_p |-> 100, bus_ok |-> FALSE]}
\* loop periods (ms)
Periods == {1000, 1001}
\* tasks the backend sends: a static window that is ending, and a dynamic task
\* for today whose window 23:30-04:30 is about to start, with a 2 kW limit
EmsPayloads ==
    {[task_type |-> "static", service_day |-> 0, charge_windows |-> << <<1320, 1410>> >>,
      max_import_limit |-> 0, override |-> FALSE, idempotency_key |-> "k1", revision |-> 1,
      updated_at |-> 1],
     [task_type |-> "dynamic", service_day |-> 0, charge_windows |-> << <<1410, 270>> >>,
      max_import_limit |-> 2, override |-> FALSE, idempotency_key |-> "k1", revision |-> 1,
      updated_at |-> 1]}

\* EMSManager.__init__, ems_manager.py:18-23
EmsInit ==
    [commissioned |-> FALSE, last_setpoint_w |-> 0, last_setpoint_ts |-> NoTs,
     hold_until |-> NoTs]
NoApplied ==
    [ticked |-> FALSE, mode |-> AUTO_MODE, set_value |-> 0, set_landed |-> FALSE,
     max_charge_w |-> 0, ramp_rate |-> 0, limited |-> FALSE, had_ts |-> FALSE,
     last_w |-> 0, dt |-> 0, held |-> FALSE, dec_xset |-> 0, comm_landed |-> FALSE]

\* controller.py:41, one loop period passes and the control loop calls
\* ems.apply(unit, soc, meter_p, pv_power)
EmsTick(period, rd) ==
    /\ nticks < MaxTicks
    /\ nticks' = nticks + 1
    /\ clock' = clock + period
    /\ LET r == ApplyOp(ems, wg, dev, store, cfg, settings, rd.soc, rd.meter_p,
                        rd.pv_power, Local(clock'), clock', rd.bus_ok)
       IN /\ ems' = r.e
          /\ wg' = r.g
          /\ dev' = r.dev
          /\ applied' = [ticked |-> TRUE, mode |-> r.mode, set_value |-> r.set_value,
                         set_landed |-> r.set_landed, max_charge_w |-> r.max_charge_w,
                         ramp_rate |-> r.ramp_rate, limited |-> r.limited,
                         had_ts |-> ems.last_setpoint_ts # NoTs,
                         last_w |-> ems.last_setpoint_w,
                         dt |-> IF ems.last_setpoint_ts = NoTs THEN 0
                                ELSE clock' - ems.last_setpoint_ts,
                         held |-> ems.hold_until # NoTs /\ Local(clock') < ems.hold_until,
                         dec_xset |-> r.dec_xset,
                         comm_landed |-> IF ems.commissioned THEN applied.comm_landed
                                         ELSE r.comm_landed]
    /\ UNCHANGED <<lock, th, landed, wlog, outcome, taskVars, cfg, settings, alertVars, supVars, auxVars>>

\* mqtt_listener.py:58 and edge_state.py:45-47, update_settings
UpdateSettings(s) ==
    /\ settings # s
    /\ settings' = s
    /\ applied' = [applied EXCEPT !.ticked = FALSE]
    /\ UNCHANGED <<wgVars, taskVars, ems, dev, cfg, nticks, alertVars, supVars, auxVars>>

\* edge_state.py:41-43, update_battery
UpdateBattery(c) ==
    /\ cfg # c
    /\ cfg' = c
    /\ applied' = [applied EXCEPT !.ticked = FALSE]
    /\ UNCHANGED <<wgVars, taskVars, ems, dev, settings, nticks, alertVars, supVars, auxVars>>

\* mqtt_listener.py on_message: a task payload for the unit reaches
\* EdgeState.update_task
TaskArrives(p) ==
    /\ store' = UpdateTaskOp(store, EmsUnit, p, curday, tnow)
    /\ store' # store
    /\ applied' = [applied EXCEPT !.ticked = FALSE]
    /\ UNCHANGED <<wgVars, curday, tnow, nops, top, ems, dev, cfg, settings, nticks, alertVars, supVars, auxVars>>

InitEMS ==
    /\ ems = EmsInit
    /\ dev = [n \in RegisterNames |-> IF n = "ems_power_mode" THEN AUTO_MODE ELSE 0]
    /\ cfg = DefaultCfg
    /\ settings = DefaultSettings
    /\ nticks = 0
    /\ applied = NoApplied

NextEMS ==
    \/ \E period \in Periods, rd \in TickInputs : EmsTick(period, rd)
    \/ \E s \in SettingsChoices : UpdateSettings(s)
    \/ \E c \in CfgChoices : UpdateBattery(c)
    \/ \E p \in EmsPayloads : TaskArrives(p)

\* ------------------------------------------------------- specifications
\* ------------------------------------------------------------ SafetyCheck
\* safety_check.py:37  DEBOUNCE_ACTIVATE_SEC = 5
DEBOUNCE_ACTIVATE_SEC == 5
\* safety_check.py:38  DEBOUNCE_CLEAR_POLLS = 10
DEBOUNCE_CLEAR_POLLS == 10
\* safety_check.py:40  ACTIVE_REEMIT_SEC = 300
ACTIVE_REEMIT_SEC == 300
\* safety_check.py:72  intent_queue = deque(maxlen=100)
INTENT_QUEUE_MAXLEN == 100

STATE_CLEAR == "CLEAR"
STATE_ACTIVE == "ACTIVE"
STATE_RESOLVED == "RESOLVED"
CRITICAL == "CRITICAL"
WARNING == "WARNING"
NoEmit == "none"
Heartbeat == "HEARTBEAT"

\* AlertState.__init__
NewAlertState ==
    [state |-> STATE_CLEAR, first_seen |-> NoTs, last_seen |-> NoTs,
     activate_deadline |-> NoTs, clear_count |-> 0, count |-> 0, event_id |-> NoTs]

\* SafetyCheck._make_event_id: uuid5 of "<consus_id>:<code>:<int(first_seen)>"
MakeEventId(first_seen) == first_seen \div 1000

\* a variant of Reactivated in which a new episode gets a new event_id
ReactivatedNewEvent(st, now) ==
    [st EXCEPT !.state = STATE_ACTIVE, !.last_seen = now, !.count = @ + 1,
               !.event_id = MakeEventId(now)]

\* a variant of Reactivated in which a resolved alert starts over from CLEAR
ReactivatedFromClear(st, now) ==
    [st EXCEPT !.state = STATE_CLEAR, !.last_seen = now, !.count = @ + 1]

\* safety_check.py:183-187, re-activation of a RESOLVED alert
Reactivated(st, now) ==
    [st EXCEPT !.state = STATE_ACTIVE, !.last_seen = now, !.count = @ + 1]

\* a variant of _eval_condition in which a not-active scan of a CLEAR alert
\* keeps the running activation deadline
EvalConditionKeepsDeadline(st, severity, active, now) ==
    IF active THEN
        IF st.state = STATE_CLEAR THEN
            LET dl == IF st.activate_deadline = NoTs
                      THEN now + DEBOUNCE_ACTIVATE_SEC * 1000
                      ELSE st.activate_deadline
            IN IF now >= dl
               THEN [st |-> [st EXCEPT !.activate_deadline = dl,
                                       !.state = STATE_ACTIVE,
                                       !.first_seen = IF @ = NoTs THEN now ELSE @,
                                       !.last_seen = now,
                                       !.event_id = IF @ = NoTs
                                                    THEN MakeEventId(IF st.first_seen = NoTs
                                                                     THEN now ELSE st.first_seen)
                                                    ELSE @,
                                       !.count = @ + 1],
                     emit |-> STATE_ACTIVE, intent |-> severity = CRITICAL]
               ELSE [st |-> [st EXCEPT !.activate_deadline = dl],
                     emit |-> NoEmit, intent |-> FALSE]
        ELSE IF st.state = STATE_ACTIVE THEN
            [st |-> [st EXCEPT !.last_seen = now],
             emit |-> IF now - st.first_seen > ACTIVE_REEMIT_SEC * 1000
                      THEN Heartbeat ELSE NoEmit,
             intent |-> FALSE]
        ELSE
            [st |-> Reactivated(st, now), emit |-> STATE_ACTIVE, intent |-> FALSE]
    ELSE
        IF st.state = STATE_ACTIVE THEN
            IF st.clear_count + 1 >= DEBOUNCE_CLEAR_POLLS
            THEN [st |-> [st EXCEPT !.clear_count = @ + 1, !.state = STATE_RESOLVED,
                                    !.last_seen = now],
                  emit |-> STATE_RESOLVED, intent |-> FALSE]
            ELSE [st |-> [st EXCEPT !.clear_count = @ + 1],
                  emit |-> NoEmit, intent |-> FALSE]
        ELSE
            [st |-> [st EXCEPT !.clear_count = 0], emit |-> NoEmit, intent |-> FALSE]

\* SafetyCheck._eval_condition for one AlertState st: the state it leaves, the
\* alert state it emits (NoEmit: none) and whether it enqueues FAULT_SAFE
EvalCondition(st, severity, active, now) ==
    IF active THEN
        IF st.state = STATE_CLEAR THEN
            LET dl == IF st.activate_deadline = NoTs
                      THEN now + DEBOUNCE_ACTIVATE_SEC * 1000
                      ELSE st.activate_deadline
            IN IF now >= dl
               THEN [st |-> [st EXCEPT !.activate_deadline = dl,
                                       !.state = STATE_ACTIVE,
                                       !.first_seen = IF @ = NoTs THEN now ELSE @,
                                       !.last_seen = now,
                                       !.event_id = IF @ = NoTs
                                                    THEN MakeEventId(IF st.first_seen = NoTs
                                                                     THEN now ELSE st.first_seen)
                                                    ELSE @,
                                       !.count = @ + 1],
                     emit |-> STATE_ACTIVE, intent |-> severity = CRITICAL]
               ELSE [st |-> [st EXCEPT !.activate_deadline = dl],
                     emit |-> NoEmit, intent |-> FALSE]
        ELSE IF st.state = STATE_ACTIVE THEN
            \* last_seen has just been set to now, so now - last_seen < 2*interval
            [st |-> [st EXCEPT !.last_seen = now],
             emit |-> IF now - st.first_seen > ACTIVE_REEMIT_SEC * 1000
                      THEN Heartbeat ELSE NoEmit,
             intent |-> FALSE]
        ELSE
            [st |-> Reactivated(st, now), emit |-> STATE_ACTIVE, intent |-> FALSE]
    ELSE
        IF st.state = STATE_ACTIVE THEN
            IF st.clear_count + 1 >= DEBOUNCE_CLEAR_POLLS
            THEN [st |-> [st EXCEPT !.clear_count = @ + 1, !.state = STATE_RESOLVED,
                                    !.last_seen = now],
                  emit |-> STATE_RESOLVED, intent |-> FALSE]
            ELSE [st |-> [st EXCEPT !.clear_count = @ + 1],
                  emit |-> NoEmit, intent |-> FALSE]
        ELSE
            [st |-> [st EXCEPT !.activate_deadline = NoTs, !.clear_count = 0],
             emit |-> NoEmit, intent |-> FALSE]

\* SafetyCheck._enqueue_intent: a deque(maxlen=100) drops its oldest entry
EnqueueIntent(n) == IF n < INTENT_QUEUE_MAXLEN THEN n + 1 ELSE n

\* the time one pass of SafetyCheck._run takes: the interval (1 s at the
\* default poll_hz), or longer when the register reads are slow
ScanPeriods == {1000, 2500}

NoScan ==
    [n |-> 0, from |-> STATE_CLEAR, to |-> STATE_CLEAR, active |-> FALSE, now |-> NoTs,
     since |-> NoTs, clears |-> 0, emit |-> NoEmit, intent |-> FALSE,
     count0 |-> 0, event_id0 |-> NoTs, episode |-> NoTs, prevbeat |-> NoTs,
     lastbeat |-> NoTs, prevemit |-> NoEmit, lastemit |-> NoEmit]

\* one pass of SafetyCheck._run: _scan_once evaluates the EMS_FAULT condition
\* (ems_check_status not in (None, 1)) read from the inverter
ScanOnce(max_scans, period, active) ==
    /\ ascan.n < max_scans
    /\ LET now == clock + period
           r == EvalCondition(alert, CRITICAL, active, now)
       IN /\ clock' = now
          /\ alert' = r.st
          /\ intents' = IF r.intent THEN EnqueueIntent(intents) ELSE intents
          /\ ascan' = [n |-> ascan.n + 1, from |-> alert.state, to |-> r.st.state,
                       active |-> active, now |-> now,
                       since |-> IF ~active THEN NoTs
                                 ELSE IF ascan.since = NoTs THEN now ELSE ascan.since,
                       clears |-> IF active THEN 0 ELSE ascan.clears + 1,
                       emit |-> r.emit, intent |-> r.intent,
                       count0 |-> alert.count, event_id0 |-> alert.event_id,
                       episode |-> IF alert.state # STATE_ACTIVE /\ r.st.state = STATE_ACTIVE
                                   THEN now ELSE ascan.episode,
                       prevbeat |-> ascan.lastbeat,
                       lastbeat |-> IF r.emit = Heartbeat THEN now ELSE ascan.lastbeat,
                       prevemit |-> ascan.lastemit,
                       lastemit |-> IF r.emit \in {STATE_ACTIVE, STATE_RESOLVED}
                                    THEN r.emit ELSE ascan.lastemit]
    /\ UNCHANGED <<wg, lock, th, landed, wlog, outcome, taskVars, emsVars, supVars>>

\* a pass of the monitor in the short watch of SpecAlerts
Scan(period, active) ==
    /\ ScanOnce(MaxScans, period, active)
    /\ UNCHANGED auxVars

\* a pass of the monitor in the long watch of SpecBeat: passes BeatPeriod
\* apart; the condition is observed at each of the first BeatHold passes and
\* comes and goes afterwards
BeatPeriod == 2500
BeatScan(active) ==
    /\ ~active => ascan.n >= BeatHold
    /\ ScanOnce(MaxBeatScans, BeatPeriod, active)
    /\ UNCHANGED auxVars

NextBeat == \E active \in BOOLEAN : BeatScan(active)

InitAlerts ==
    /\ alert = NewAlertState
    /\ intents = 0
    /\ ascan = NoScan

NextAlerts == \E period \in ScanPeriods, active \in BOOLEAN : Scan(period, active)

\* ------------------------------------------- supervisor, bus events, workers
SupUnits == {"u1"}
Unset == "unset"
EdgeStatuses == {"active", "paused", "inactive"}
\* battery_configs[unit]["battery_mode"]; forced_charging takes the same
\* path through the controller as active
BatteryModes == {"active", "idle"}
NoWorker == 0

\* a worker thread of ThreadManager.start_battery_thread with its
\* BatteryController: by whom it was started, whether the controller has a
\* health monitor, the monitor's queued FAULT_SAFE intents and whether its
\* CRITICAL alert has gone ACTIVE, the thread's stop_event, whether the
\* thread loop is still running, and BatteryController._fault_safe
NewWorker(unit, by, health) ==
    [unit |-> unit, by |-> by, health |-> health, intents |-> 0, fired |-> FALSE,
     stop |-> FALSE, alive |-> TRUE, fault_safe |-> FALSE]

\* ThreadManager.start_battery_thread on the manager whose threads are
\* `threads`: nothing if the unit has a thread there, else a new worker
StartBatteryThread(threads, ws, unit, by, health) ==
    IF unit \in DOMAIN threads
    THEN [threads |-> threads, ws |-> ws]
    ELSE [threads |-> [u \in DOMAIN threads \cup {unit} |->
                          IF u = unit THEN Len(ws) + 1 ELSE threads[u]],
          ws |-> Append(ws, NewWorker(unit, by, health))]

\* ThreadManager.stop_battery_thread: sets the stop_event of the manager's
\* thread for the unit and forgets the thread; nothing if it has none
StopBatteryThread(threads, ws, unit) ==
    IF unit \notin DOMAIN threads
    THEN [threads |-> threads, ws |-> ws]
    ELSE [threads |-> [u \in DOMAIN threads \ {unit} |-> threads[u]],
          ws |-> [ws EXCEPT ![threads[unit]].stop = TRUE]]

\* a settings or config value that is not a string, and a unit config that
\* is not a mapping
NotAString == "<not a string>"
NotAMapping == "<not a mapping>"

\* str.lower() on the edge_status values of the model
Lower(x) ==
    CASE x \in {"Active", "ACTIVE"} -> "active"
      [] x = "Paused" -> "paused"
      [] OTHER -> x

\* the lookup battery_cfg.get("battery_mode", "idle") with the key absent
\* yielding "active" instead
ModeForAbsentIsActive(status, bm) ==
    IF status = NotAString THEN "idle"
    ELSE IF Lower(IF status = Unset THEN "active" ELSE status) # "active" THEN "idle"
    ELSE IF bm = NotAMapping THEN "idle"
    ELSE LET battery_mode == IF bm = Unset THEN "active" ELSE bm
         IN IF battery_mode = "idle" THEN "idle"
            ELSE IF battery_mode = "forced_charging" THEN "forced_charging"
            ELSE "active"

\* TaskEvaluator.determine_mode on settings.get("edge_status") = status and
\* the unit config's battery_mode = bm, Unset when the key (or the unit's
\* config) is absent: .lower() of a value that is not a string and .get of
\* a config that is not a mapping raise, and the except branch returns idle
ModeFor(status, bm) ==
    IF status = NotAString THEN "idle"
    ELSE IF Lower(IF status = Unset THEN "active" ELSE status) # "active" THEN "idle"
    ELSE IF bm = NotAMapping THEN "idle"
    ELSE LET battery_mode == IF bm = Unset THEN "idle" ELSE bm
         IN IF battery_mode = "idle" THEN "idle"
            ELSE IF battery_mode = "forced_charging" THEN "forced_charging"
            ELSE "active"

\* TaskEvaluator.determine_mode
DetermineMode(status, configs, unit) ==
    ModeFor(status, IF unit \in DOMAIN configs THEN configs[unit] ELSE Unset)

\* BatteryController.run_once of worker wk: the intents drained, the mode,
\* whether the EMS applier is invoked, whether an exception was raised inside
\* the tick and the mode of the telemetry record handed to the poster
RunOnce(wk, status, configs, tel_ok) ==
    LET fs == wk.fault_safe \/ (wk.health /\ wk.intents > 0)
        mode == IF fs THEN "idle" ELSE DetermineMode(status, configs, wk.unit)
    IN [wk |-> [wk EXCEPT !.fault_safe = fs,
                          !.intents = IF wk.health THEN 0 ELSE @],
        mode |-> mode,
        ems |-> tel_ok /\ mode # "idle",
        raised |-> ~tel_ok,
        rec_mode |-> mode]

NoTick ==
    [w |-> NoWorker, unit |-> "none", mode |-> "none", ems |-> FALSE, raised |-> FALSE,
     rec_mode |-> "none", fault_safe |-> FALSE, faulted |-> FALSE, latched |-> FALSE,
     removed |-> FALSE, paused |-> FALSE]

NoHist ==
    [tick |-> NoTick, looped |-> "none", left |-> FALSE, atpause |-> {},
     faulted |-> {}, latched |-> {}, removed |-> {}]

Running(ws, unit) ==
    {w \in 1..Len(ws) : ws[w].unit = unit /\ ws[w].alive /\ ~ws[w].stop}

RECURSIVE StartAll(_, _, _, _)
\* main(): the for loop over battery_configs of the active branch
StartAll(todo, act, threads, ws) ==
    IF todo = {} THEN [act |-> act, threads |-> threads, ws |-> ws]
    ELSE LET u == CHOOSE x \in todo : TRUE
         IN IF u \in act THEN StartAll(todo \ {u}, act, threads, ws)
            ELSE LET r == StartBatteryThread(threads, ws, u, "main", TRUE)
                 IN StartAll(todo \ {u}, act \cup {u}, r.threads, r.ws)

RECURSIVE StopAll(_, _, _)
\* main(): the for loop over thread_manager.list_active() of the paused branch
StopAll(todo, threads, ws) ==
    IF todo = {} THEN [threads |-> threads, ws |-> ws]
    ELSE LET u == CHOOSE x \in todo : TRUE
             r == StopBatteryThread(threads, ws, u)
         IN StopAll(todo \ {u}, r.threads, r.ws)

\* one pass of the while loop of main()
MainLoop ==
    /\ IF edge_status = "active" THEN
           LET r == StartAll(DOMAIN battery_configs, active_threads, tm_main, workers)
           IN /\ Len(r.ws) <= MaxWorkers
              /\ active_threads' = r.act
              /\ tm_main' = r.threads
              /\ workers' = r.ws
       ELSE IF edge_status \in {"paused", "inactive"} THEN
           LET r == StopAll(DOMAIN tm_main, tm_main, workers)
           IN /\ tm_main' = r.threads
              /\ workers' = r.ws
              /\ UNCHANGED active_threads
       ELSE UNCHANGED <<active_threads, tm_main, workers>>
    \* history: the workers that exist when the loop handles the status that
    \* followed active
    /\ hist' = [hist EXCEPT !.looped = edge_status,
                            !.atpause = IF hist.left THEN 1..Len(workers) ELSE {}]
    /\ UNCHANGED <<edge_status, battery_configs, tm_mqtt>>
    /\ UNCHANGED <<wgVars, taskVars, emsVars, alertVars, auxVars>>

\* on_message, type "settings": the settings are replaced
SettingsEvent(s) ==
    /\ s # edge_status
    /\ edge_status' = s
    /\ hist' = [hist EXCEPT !.looped = "none", !.atpause = {},
                            !.left = IF s = "active" THEN FALSE
                                     ELSE (edge_status = "active" \/ @)]
    /\ UNCHANGED <<battery_configs, active_threads, tm_main, tm_mqtt, workers>>
    /\ UNCHANGED <<wgVars, taskVars, emsVars, alertVars, auxVars>>

\* on_message, types "battery_config" and "battery_add": update_battery, then
\* _ensure_controller_running on the listener's own thread manager, with a
\* controller that has no health monitor
EnsureControllerRunning(unit, m) ==
    LET r == StartBatteryThread(tm_mqtt, workers, unit, "mqtt", FALSE)
    IN /\ Len(r.ws) <= MaxWorkers
       /\ battery_configs' = [u \in DOMAIN battery_configs \cup {unit} |->
                                 IF u = unit THEN m ELSE battery_configs[u]]
       /\ tm_mqtt' = r.threads
       /\ workers' = r.ws
       /\ hist' = [hist EXCEPT !.removed = @ \ {unit}]
       /\ UNCHANGED <<edge_status, active_threads, tm_main>>
       /\ UNCHANGED <<wgVars, taskVars, emsVars, alertVars, auxVars>>

BatteryConfig(unit, m) ==
    /\ unit \in DOMAIN battery_configs
    /\ EnsureControllerRunning(unit, m)

BatteryAdd(unit, m) ==
    /\ unit \notin DOMAIN battery_configs
    /\ EnsureControllerRunning(unit, m)

\* on_message, type "battery_remove"
BatteryRemove(unit) ==
    /\ unit \in DOMAIN battery_configs
    /\ LET r == StopBatteryThread(tm_mqtt, workers, unit)
       IN /\ tm_mqtt' = r.threads
          /\ workers' = r.ws
    /\ battery_configs' = [u \in DOMAIN battery_configs \ {unit} |-> battery_configs[u]]
    /\ hist' = [hist EXCEPT !.removed = @ \cup {unit}]
    /\ UNCHANGED <<edge_status, active_threads, tm_main>>
    /\ UNCHANGED <<wgVars, taskVars, emsVars, alertVars, auxVars>>

\* the health monitor of worker w's controller takes its CRITICAL alert from
\* CLEAR to ACTIVE (EvalCondition with intent) and enqueues FAULT_SAFE; the
\* monitor is never stopped, so it runs on after its worker
CriticalActive(w) ==
    /\ w \in 1..Len(workers)
    /\ workers[w].health
    /\ ~workers[w].fired
    /\ workers' = [workers EXCEPT ![w].fired = TRUE,
                                  ![w].intents = EnqueueIntent(@)]
    /\ hist' = [hist EXCEPT !.faulted = @ \cup {workers[w].unit}]
    /\ UNCHANGED <<edge_status, battery_configs, active_threads, tm_main, tm_mqtt>>
    /\ UNCHANGED <<wgVars, taskVars, emsVars, alertVars, auxVars>>

\* one pass of battery_thread_runner of worker w: it leaves the loop if its
\* stop_event is set, else runs controller.run_once and hands the record to
\* the poster; tel_ok: read_telemetry returns (it raises when the battery_soc
\* read failed)
WorkerTick(w, tel_ok) ==
    /\ w \in 1..Len(workers)
    /\ workers[w].alive
    /\ IF workers[w].stop
       THEN /\ workers' = [workers EXCEPT ![w].alive = FALSE]
            /\ hist' = [hist EXCEPT !.tick = NoTick]
       ELSE LET r == RunOnce(workers[w], edge_status, battery_configs, tel_ok)
                u == workers[w].unit
            IN /\ workers' = [workers EXCEPT ![w] = r.wk]
               /\ hist' = [hist EXCEPT
                     !.tick = [w |-> w, unit |-> u, mode |-> r.mode, ems |-> r.ems,
                               raised |-> r.raised, rec_mode |-> r.rec_mode,
                               fault_safe |-> r.wk.fault_safe,
                               faulted |-> u \in hist.faulted,
                               latched |-> u \in hist.latched,
                               removed |-> u \in hist.removed,
                               paused |-> w \in hist.atpause],
                     !.latched = IF r.wk.fault_safe THEN @ \cup {u} ELSE @]
    /\ UNCHANGED <<edge_status, battery_configs, active_threads, tm_main, tm_mqtt>>
    /\ UNCHANGED <<wgVars, taskVars, emsVars, alertVars, auxVars>>

InitSup ==
    /\ edge_status = Unset
    /\ battery_configs = <<>>
    /\ active_threads = {}
    /\ tm_main = <<>>
    /\ tm_mqtt = <<>>
    /\ workers = <<>>
    /\ hist = NoHist

NextSup ==
    \/ MainLoop
    \/ \E s \in EdgeStatuses : SettingsEvent(s)
    \/ \E u \in SupUnits, m \in BatteryModes : BatteryConfig(u, m)
    \/ \E u \in SupUnits, m \in BatteryModes : BatteryAdd(u, m)
    \/ \E u \in SupUnits : BatteryRemove(u)
    \/ \E w \in 1..MaxWorkers : CriticalActive(w)
    \/ \E w \in 1..MaxWorkers, tel_ok \in BOOLEAN : WorkerTick(w, tel_ok)

\* ------------------------------------------------ in_charge_window alone
\* resolved windows (minutes of the day): 23:30-04:30, 22:00-23:30,
\* 04:30-04:30 and 00:00-00:15
QueryWindows == {<<1410, 270>>, <<1320, 1410>>, <<270, 270>>, <<0, 15>>}
QueryWindowLists ==
    {<<>>} \cup {<<a>> : a \in QueryWindows} \cup {<<a, b>> : a, b \in QueryWindows}
\* times of day (ms): 00:00, 00:15, 04:29:59.999, 04:30, 12:00, 22:00,
\* 23:29:59.999, 23:30, 23:59:59.999
QueryTimes ==
    {0, 15 * MinuteMs, 270 * MinuteMs - 1, 270 * MinuteMs, 720 * MinuteMs, 1320 * MinuteMs,
     1410 * MinuteMs - 1, 1410 * MinuteMs, DayMs - 1}
NoQuery == [asked |-> FALSE, windows |-> <<>>, tod |-> 0, res |-> FALSE]

\* EMSManager.in_charge_window called at local time of day tod with
\* get_charge_windows returning windows
WindowQuery(windows, tod) ==
    /\ wq' = [asked |-> TRUE, windows |-> windows, tod |-> tod,
              res |-> InChargeWindow(windows, tod)]
    /\ UNCHANGED <<wgVars, taskVars, emsVars, alertVars, supVars, wmon, whist, mres, snap, mq, poster, auxVars2>>

\* ------------------------------------ SafetyCheck: batched WARNING alerts
\* safety_check.py:39  WARNING_BATCH_SEC = 45
WARNING_BATCH_SEC == 45
\* the time one pass of SafetyCheck._run takes when register reads are slow
BatchPeriods == {5000, 10000}

\* SafetyCheck.__init__: no alert state yet, an empty batch, and
\* _last_batch_post = time.time()
NewMonitor ==
    [alert |-> NewAlertState, batch |-> <<>>, last_batch_post |-> StartClock, n |-> 0]
NoBatchHist ==
    [emitted |-> {}, accepted |-> {}, flushed |-> FALSE, post_ok |-> FALSE, sent |-> <<>>]

\* SafetyCheck._emit_alert for a WARNING alert: the payload joins _batch
EmitToBatch(batch, emit, st, now) ==
    IF emit = NoEmit THEN batch
    ELSE Append(batch, [state |-> emit, count |-> st.count, ts |-> now])

\* SafetyCheck._flush_batches_if_needed: the batch is taken out of _batch
\* and handed to post_health_alerts, whose result (0 posted, 1 failed) is
\* not looked at
FlushBatchesIfNeeded(mon, now, post_ok) ==
    IF mon.batch # <<>> /\ now - mon.last_batch_post >= WARNING_BATCH_SEC * 1000
    THEN [mon |-> [mon EXCEPT !.batch = <<>>, !.last_batch_post = now],
          flushed |-> TRUE, sent |-> mon.batch]
    ELSE [mon |-> mon, flushed |-> FALSE, sent |-> <<>>]

Range(q) == {q[i] : i \in 1 .. Len(q)}

\* one pass of SafetyCheck._run for the BMS_WARNING condition:
\* _eval_condition, then _flush_batches_if_needed; post_ok: the backend
\* answers the POST with 2xx
WarnScan(period, active, post_ok) ==
    /\ wmon.n < MaxBatchScans
    /\ LET now == clock + period
           r == EvalCondition(wmon.alert, WARNING, active, now)
           b == EmitToBatch(wmon.batch, r.emit, r.st, now)
           f == FlushBatchesIfNeeded([wmon EXCEPT !.alert = r.st, !.batch = b,
                                                  !.n = @ + 1], now, post_ok)
       IN /\ clock' = now
          /\ wmon' = f.mon
          /\ whist' = [emitted |-> whist.emitted \cup (Range(b) \ Range(wmon.batch)),
                       accepted |-> IF f.flushed /\ post_ok
                                    THEN whist.accepted \cup Range(f.sent)
                                    ELSE whist.accepted,
                       flushed |-> f.flushed, post_ok |-> post_ok, sent |-> f.sent]
    /\ UNCHANGED <<wg, lock, th, landed, wlog, outcome, taskVars, emsVars, alertVars,
                   supVars, wq, mres, snap, mq, poster, auxVars2>>

NextBatch ==
    \E period \in BatchPeriods, active \in BOOLEAN, post_ok \in BOOLEAN :
        WarnScan(period, active, post_ok)

\* ----------------------------------------------- on_message, bus messages
\* which field of a task payload does not parse: none, revision (not an
\* integer), updated_at (not an ISO instant), time (charge_window_start of a
\* static task), window (a time inside a charge_windows pair)
BadFields == {"none", "revision", "updated_at", "time", "window"}
MsgPayloads(today) ==
    [task_type : {"dynamic"}, service_day : {today, BadDay}, charge_windows : WindowLists,
     max_import_limit : {0}, override : {FALSE}, idempotency_key : {"k1"},
     revision : Revisions, updated_at : {1}]
    \cup
    [task_type : {"static"}, service_day : {0}, charge_windows : WindowLists,
     max_import_limit : {0}, override : {FALSE}, idempotency_key : {"k1"}, revision : {1},
     updated_at : {1}]
\* the messages on the topic: a payload that is not JSON, a message of a
\* type on_message does not know, and task messages for the unit
Messages(today) ==
    {[kind |-> "bad_json", data |-> NullPayload, bad |-> "none"],
     [kind |-> "unknown", data |-> NullPayload, bad |-> "none"]}
    \cup
    {m \in [kind : {"task"}, data : MsgPayloads(today), bad : BadFields] :
        /\ m.data.task_type = "dynamic" => m.bad # "time"
        /\ m.data.task_type = "static" => m.bad # "window"}

\* a message the handler is to drop: not JSON, unknown type, or a task with a
\* field that does not parse
InvalidMessage(m) ==
    \/ m.kind \in {"bad_json", "unknown"}
    \/ m.bad # "none"
    \/ m.data.task_type = "dynamic" /\ m.data.service_day = BadDay

\* on_message for message m: the store it leaves and whether an exception
\* leaves the handler. update_task raises from _parse_time (static
\* charge_window_start), _parse_dt (updated_at) and int() (revision) before it
\* touches the store, rejects a dynamic task on service_day first, and skips
\* a dynamic window pair that does not parse.
OnMessageOp(S, cid, m, today, now) ==
    IF m.kind # "task" THEN [store |-> S, raised |-> FALSE]
    ELSE IF m.data.task_type = "dynamic" /\ m.data.service_day = BadDay
    THEN [store |-> S, raised |-> FALSE]
    ELSE IF m.bad \in {"time", "updated_at", "revision"}
    THEN [store |-> S, raised |-> TRUE]
    ELSE IF m.bad = "window"
    THEN [store |-> UpdateTaskOp(S, cid, [m.data EXCEPT !.charge_windows = <<>>], today, now),
          raised |-> FALSE]
    ELSE [store |-> UpdateTaskOp(S, cid, m.data, today, now), raised |-> FALSE]

NoMessage ==
    [n |-> 0, kind |-> "none", bad |-> "none", invalid |-> FALSE, raised |-> FALSE,
     changed |-> FALSE]

\* the bus thread handles one message
OnMessage(cid, m) ==
    /\ mres.n < MaxMsgs
    /\ LET r == OnMessageOp(store, cid, m, curday, tnow)
       IN /\ store' = r.store
          /\ mres' = [n |-> mres.n + 1, kind |-> m.kind, bad |-> m.bad,
                      invalid |-> InvalidMessage(m), raised |-> r.raised,
                      changed |-> r.store # store]
    /\ UNCHANGED <<curday, tnow, nops, top, wgVars, emsVars, alertVars, supVars,
                   wq, wmon, whist, snap, mq, poster, auxVars2>>

NextMsg == \E cid \in TaskUnits, m \in Messages(curday) : OnMessage(cid, m)

\* ------------------------- a controller tick against the bus thread
\* decide reads the store twice, with no lock: EDGE_STATE.get_task
\* (ems_manager.py:165) and then, through in_charge_window,
\* EDGE_STATE.get_charge_windows (ems_manager.py:106); the bus thread runs
\* update_task in between or not.
NoSnap == [pc |-> "idle", n |-> 0, cap_kw |-> 0, windows |-> <<>>, seen |-> {}]
SnapPayloads(today) == EmsPayloads \cup MsgPayloads(today)

\* decide, ems_manager.py:165-166: dyn = EDGE_STATE.get_task(...)
TickReadsTask ==
    /\ snap.pc = "idle"
    /\ snap.n < MaxSnapOps
    /\ snap' = [pc |-> "mid", n |-> snap.n + 1,
                cap_kw |-> GetTaskCapKw(store, EmsUnit, curday),
                windows |-> <<>>, seen |-> {store}]
    /\ UNCHANGED <<wgVars, taskVars, emsVars, alertVars, supVars, wq, wmon, whist, mres, mq, poster, auxVars2>>

\* decide, ems_manager.py:168 -> in_charge_window, ems_manager.py:106
TickReadsWindows ==
    /\ snap.pc = "mid"
    /\ snap' = [snap EXCEPT !.pc = "done",
                            !.windows = GetChargeWindows(store, EmsUnit, curday)]
    /\ UNCHANGED <<wgVars, taskVars, emsVars, alertVars, supVars, wq, wmon, whist, mres, mq, poster, auxVars2>>

\* the tick ends
TickEnds ==
    /\ snap.pc = "done"
    /\ snap' = [snap EXCEPT !.pc = "idle", !.seen = {}]
    /\ UNCHANGED <<wgVars, taskVars, emsVars, alertVars, supVars, wq, wmon, whist, mres, mq, poster, auxVars2>>

\* the bus thread runs the whole of update_task for a task message
BusUpdatesTask(p) ==
    /\ snap.n < MaxSnapOps
    /\ store' = UpdateTaskOp(store, EmsUnit, p, curday, tnow)
    /\ store' # store
    /\ snap' = [snap EXCEPT !.n = @ + 1,
                            !.seen = IF snap.pc = "idle" THEN @ ELSE @ \cup {store'}]
    /\ UNCHANGED <<curday, tnow, nops, top, wgVars, emsVars, alertVars, supVars,
                   wq, wmon, whist, mres, mq, poster, auxVars2>>

NextSnap ==
    \/ TickReadsTask
    \/ TickReadsWindows
    \/ TickEnds
    \/ \E p \in SnapPayloads(curday) : BusUpdatesTask(p)

\* ------------------------------------------------- determine_mode, one call
EdgeStatusValues ==
    {Unset, "active", "Active", "ACTIVE", "paused", "Paused", "inactive", NotAString}
BatteryModeValues ==
    {Unset, "idle", "Idle", "forced_charging", "active", "charging", "None", NotAMapping}
NoModeQuery == [asked |-> FALSE, n |-> 0, status |-> Unset, bm |-> Unset, res |-> "idle"]

ModeQuery(status, bm) ==
    /\ mq.n < MaxModeCalls
    /\ mq' = [asked |-> TRUE, n |-> mq.n + 1, status |-> status, bm |-> bm,
              res |-> ModeFor(status, bm)]
    /\ UNCHANGED <<wgVars, taskVars, emsVars, alertVars, supVars,
                   wq, wmon, whist, mres, snap, poster, auxVars2>>

NextMode == \E status \in EdgeStatusValues, bm \in BatteryModeValues : ModeQuery(status, bm)

\* ------------------------------------------------------------ BackendPoster
\* __init__: one Thread object, not started; _stop_event clear; _started
\* False; an empty data_queue. History: the calls made, the last call,
\* whether a call raised, and how many times the flush worker began to run.
NewPoster ==
    [thread |-> "new", started |-> FALSE, stop_event |-> FALSE, queue |-> 0,
     n |-> 0, last |-> "none", failed |-> FALSE, runs |-> 0]

\* BackendPoster.is_active
IsActive(p) == p.started

\* BackendPoster.start: Thread.start() on a thread that was started before
\* raises RuntimeError, and _started stays False
PosterStart ==
    /\ poster.n < MaxPosterCalls
    /\ poster' =
         IF poster.started
         THEN [poster EXCEPT !.n = @ + 1, !.last = "start"]
         ELSE IF poster.thread = "new"
         THEN [poster EXCEPT !.n = @ + 1, !.last = "start", !.thread = "running",
                             !.started = TRUE, !.runs = @ + 1]
         ELSE [poster EXCEPT !.n = @ + 1, !.last = "start", !.failed = TRUE]
    /\ UNCHANGED <<wgVars, taskVars, emsVars, alertVars, supVars,
                   wq, wmon, whist, mres, snap, mq, auxVars2>>

\* BackendPoster.stop: sets _stop_event, joins the thread if it is alive
\* (the worker ends its pass, with or without one more drain of the queue,
\* and leaves its loop), clears _started
PosterStop ==
    /\ poster.n < MaxPosterCalls
    /\ \E q \in {0, poster.queue} :
         poster' = [poster EXCEPT !.n = @ + 1, !.last = "stop", !.stop_event = TRUE,
                                  !.thread = IF @ = "running" THEN "finished" ELSE @,
                                  !.queue = IF poster.thread = "running" THEN q ELSE @,
                                  !.started = FALSE]
    /\ UNCHANGED <<wgVars, taskVars, emsVars, alertVars, supVars,
                   wq, wmon, whist, mres, snap, mq, auxVars2>>

\* BackendPoster.add_data
AddData ==
    /\ poster.queue < MaxPosterQueue
    /\ poster' = [poster EXCEPT !.queue = @ + 1]
    /\ UNCHANGED <<wgVars, taskVars, emsVars, alertVars, supVars,
                   wq, wmon, whist, mres, snap, mq, auxVars2>>

\* BackendPoster._worker, one pass of the loop: drain the queue and post
WorkerFlush ==
    /\ poster.thread = "running"
    /\ ~poster.stop_event
    /\ poster.queue > 0
    /\ poster' = [poster EXCEPT !.queue = 0]
    /\ UNCHANGED <<wgVars, taskVars, emsVars, alertVars, supVars,
                   wq, wmon, whist, mres, snap, mq, auxVars2>>

\* BackendPoster._worker: the loop condition finds _stop_event set
WorkerExit ==
    /\ poster.thread = "running"
    /\ poster.stop_event
    /\ poster' = [poster EXCEPT !.thread = "finished"]
    /\ UNCHANGED <<wgVars, taskVars, emsVars, alertVars, supVars,
                   wq, wmon, whist, mres, snap, mq, auxVars2>>

NextPoster ==
    \/ PosterStart
    \/ PosterStop
    \/ AddData
    \/ WorkerFlush
    \/ WorkerExit

\* ------------------------------------------------------- decide, one call
\* the store after update_task of a dynamic task for the day with the windows
StoreWithWindows(windows, day) ==
    UpdateTaskOp(EmptyStore, EmsUnit,
                 [task_type |-> "dynamic", service_day |-> day, charge_windows |-> windows,
                  max_import_limit |-> 2, override |-> FALSE, idempotency_key |-> "k1",
                  revision |-> 1, updated_at |-> 1], day, 0)
DecideDay == 1
\* _hold_until before the call: unset, just passed, reached now, or ahead
DecideHolds(now_dt) == {NoTs, now_dt - 1, now_dt, now_dt + MinuteMs}
\* soc in 1/1000 around 0.99 of the targets 80 % and 100 %
DecideSocs == {0, 791, 792, 989, 990, 1000}
DecidePvs == {0, 500, 4000}
DecideSettings == SettingsChoices \cup {DefaultSettings}
NoDecide ==
    [asked |-> FALSE, windows |-> <<>>, now |-> 0, hold0 |-> NoTs, soc |-> 0,
     st |-> DefaultSettings, mode |-> AUTO_MODE, xset |-> 0, hold |-> NoTs]

DecideCall(windows, tod, soc, pv_power, st) ==
    LET now_dt == DecideDay * DayMs + tod IN
    /\ ~dq.asked
    /\ \E hold0 \in DecideHolds(now_dt) :
      LET d == Decide(StoreWithWindows(windows, DecideDay), st, hold0, soc, pv_power, now_dt)
      IN /\ dq' = [asked |-> TRUE, windows |-> windows, now |-> now_dt, hold0 |-> hold0,
                   soc |-> soc, st |-> st, mode |-> d.mode, xset |-> d.xset,
                   hold |-> d.hold_until]
         /\ UNCHANGED <<wgVars, taskVars, emsVars, alertVars, supVars,
                        wq, wmon, whist, mres, snap, mq, poster, uw>>

NextDecide ==
    \E windows \in QueryWindowLists, tod \in QueryTimes, soc \in DecideSocs,
       pv_power \in DecidePvs, st \in DecideSettings :
        DecideCall(windows, tod, soc, pv_power, st)

InitAux ==
    /\ wq = NoQuery
    /\ wmon = NewMonitor
    /\ whist = NoBatchHist
    /\ mres = NoMessage
    /\ snap = NoSnap
    /\ mq = NoModeQuery
    /\ poster = NewPoster
    /\ dq = NoDecide
    /\ uw = NoUnitWrite

NextWindow == \E windows \in QueryWindowLists, tod \in QueryTimes : WindowQuery(windows, tod)

Init == InitWG /\ InitTasks /\ InitEMS /\ InitAlerts /\ InitSup /\ InitAux

\* WriteGuard.attempt, one caller at a time
SpecWG == Init /\ [][NextWG]_vars
\* WriteGuard.attempt called by one worker thread per unit
SpecWGT == Init /\ [][NextWGT]_vars
\* EdgeState task API
SpecTasks == Init /\ [][NextTasks]_vars
\* the control loop of one unit with settings, config and task updates
SpecEMS == Init /\ [][NextEMS]_vars
\* the health monitor's alert state machine
SpecAlerts == Init /\ [][NextAlerts]_vars
\* the supervisor loop, the bus events and the per-unit workers
SpecSup == Init /\ [][NextSup]_vars
\* in_charge_window on its own
SpecWindow == Init /\ [][NextWindow]_vars
\* the health monitor's batched WARNING alerts
SpecBatch == Init /\ [][NextBatch]_vars
\* the bus message handler
SpecMsg == Init /\ [][NextMsg]_vars
\* a controller tick reading the store while the bus thread updates it
SpecSnap == Init /\ [][NextSnap]_vars
\* single calls of determine_mode
SpecMode == Init /\ [][NextMode]_vars
\* start and stop calls on the BackendPoster
SpecPoster == Init /\ [][NextPoster]_vars
\* one call of decide on every input
SpecDecide == Init /\ [][NextDecide]_vars
\* the monitor watching one alert for more than ACTIVE_REEMIT_SEC
SpecBeat == Init /\ [][NextBeat]_vars
\* two units writing through their own register interfaces
SpecUnits == Init /\ [][NextUnits]_vars

\* ------------------------------------------------------- lookup claims
\* C11: for every unit and day, get_charge_windows gives the windows of the
\* dynamic entry of that day if there is one, else the single static window if a
\* static task with a window is set, else the empty list; get_task gives the
\* dynamic entry, else the static entry, else none; get_task_type names the kind
\* of the entry get_task gives.
LookupDays == {curday - 1, curday, curday + 1, curday + 2}
C11_LookupPrecedence ==
    \A cid \in TaskUnits, d \in LookupDays :
        LET dyn == cid \in DOMAIN store.dyn /\ d \in DOMAIN store.dyn[cid]
            stat == cid \in DOMAIN store.stat
            t == GetTask(store, cid, d)
            w == GetChargeWindows(store, cid, d)
        IN /\ dyn => (t = store.dyn[cid][d] /\ w = store.dyn[cid][d].charge_windows)
           /\ (~dyn /\ stat) =>
                 /\ t = store.stat[cid]
                 /\ w = IF store.stat[cid].charge_window_start # NoTime
                        THEN << <<store.stat[cid].charge_window_start,
                                  store.stat[cid].charge_window_end>> >>
                        ELSE <<>>
           /\ (~dyn /\ ~stat) => (t = NoTask /\ w = <<>>)
           /\ IF t = NoTask THEN GetTaskType(store, cid, d) = "none"
              ELSE GetTaskType(store, cid, d) = t.task_type
\* a dynamic entry without windows for today next to a static task with a window
C11_Witness ==
    \E cid \in TaskUnits :
        /\ HasSlot(store, cid, curday) /\ Slot(store, cid, curday).charge_windows = <<>>
        /\ cid \in DOMAIN store.stat /\ store.stat[cid].charge_window_start # NoTime
        /\ GetChargeWindows(store, cid, curday) = <<>>

\* C12: update_task(unit, null) leaves the store unchanged if the unit's most
\* recent stored dynamic day is more than fallback_max_days before today;
\* otherwise each missing slot among today and tomorrow becomes a copy of that
\* day's entry with task_code "<orig>-copy-<date>" and updated_at = now, slots
\* that exist stay as they are; static tasks are never modified.
C12_FallbackCopiesForward ==
    \A cid \in TaskUnits :
        LET S1 == UpdateTaskOp(store, cid, NullPayload, curday, tnow)
            per_batt == DayMap(store, cid)
        IN /\ S1.stat = store.stat
           /\ IF DOMAIN per_batt = {} THEN S1 = store
              ELSE LET d_last == MaxOf(DOMAIN per_batt) IN
                   IF curday - d_last > fallback_max_days THEN S1 = store
                   ELSE \A d \in {curday, curday + 1} :
                          /\ HasSlot(S1, cid, d)
                          /\ Slot(S1, cid, d) =
                               IF d \in DOMAIN per_batt THEN per_batt[d]
                               ELSE [per_batt[d_last] EXCEPT
                                       !.task_code = Append(@, d), !.updated_at = tnow]
\* a null payload has just filled today's slot with a copy of yesterday's entry
C12_Witness ==
    /\ top.kind = "null"
    /\ \E cid \in TaskUnits :
         /\ HasSlot(store, cid, curday)
         /\ Slot(store, cid, curday).task_code = <<cid, curday - 1, curday>>
         /\ Slot(store, cid, curday).updated_at = tnow

\* ------------------------------------------------------ EMS applier claims
\* C13: a CLEAR alert becomes ACTIVE only on a scan that sees the condition
\* active at the end of an unbroken run of active scans spanning at least
\* DEBOUNCE_ACTIVATE_SEC; a not-active scan of a CLEAR alert leaves it CLEAR,
\* emits nothing and clears the deadline; an active scan of a CLEAR alert
\* emits ACTIVE exactly when the run has reached that span.
C13_ClearToActiveDebounced ==
    (ascan.n > 0 /\ ascan.from = STATE_CLEAR) =>
        /\ ~ascan.active =>
             /\ ascan.to = STATE_CLEAR
             /\ ascan.emit = NoEmit
             /\ alert.activate_deadline = NoTs
        /\ ascan.active =>
             IF ascan.now - ascan.since >= DEBOUNCE_ACTIVATE_SEC * 1000
             THEN ascan.to = STATE_ACTIVE /\ ascan.emit = STATE_ACTIVE
             ELSE ascan.to = STATE_CLEAR /\ ascan.emit = NoEmit

\* an alert that was seen active, cleared before the span was reached, and is
\* now activated by a later run that lasted the full span
C13_Witness ==
    /\ ascan.from = STATE_CLEAR
    /\ ascan.to = STATE_ACTIVE
    /\ ascan.emit = STATE_ACTIVE
    /\ ascan.n >= 5
    /\ ascan.now - ascan.since >= DEBOUNCE_ACTIVATE_SEC * 1000
    /\ ascan.now - ascan.since < (ascan.n - 1) * 1000

\* C14: a scan takes an alert from ACTIVE to RESOLVED only as the last of
\* DEBOUNCE_CLEAR_POLLS consecutive not-active scans.
C14_ResolvedAfterConsecutiveClears ==
    (ascan.from = STATE_ACTIVE /\ ascan.to = STATE_RESOLVED) =>
        ascan.clears >= DEBOUNCE_CLEAR_POLLS

\* C15: on every controller tick of a unit whose CRITICAL alert has gone
\* ACTIVE (FAULT_SAFE enqueued) before the tick, the ticking controller has
\* fault_safe set, whoever started it.
C15_FaultSafeReachesEveryController ==
    hist.tick.faulted => hist.tick.fault_safe

\* C16: on every controller tick of a unit some controller of which has
\* latched fault_safe, the mode is idle and the EMS applier is not invoked.
C16_FaultSafeLatchedForUnit ==
    hist.tick.latched => (hist.tick.mode = "idle" /\ ~hist.tick.ems)

\* C17: a controller tick inside which an exception was raised yields a
\* telemetry record with mode "error".
C17_RaisedTickYieldsErrorRecord ==
    hist.tick.raised => hist.tick.rec_mode = "error"

\* C18: at any time at most one worker is ticking a given unit.
C18_OneWorkerPerUnit ==
    \A u \in SupUnits : Cardinality(Running(workers, u)) <= 1

\* C19: once the supervisor loop has handled the edge_status that followed
\* active, no worker that existed then performs a tick, and once it has
\* handled edge_status active every configured unit has a running worker.
C19_PauseStopsResumeRestarts ==
    /\ ~hist.tick.paused
    /\ hist.looped = "active" =>
         \A u \in DOMAIN battery_configs : Running(workers, u) # {}

\* C20: after battery_remove of a unit has been handled the unit has no
\* config, and no worker performs a tick for it until a battery_add or
\* battery_config for it arrives.
C20_RemoveStopsUnit ==
    /\ \A u \in hist.removed : u \notin DOMAIN battery_configs
    /\ ~hist.tick.removed

\* C21: on a tick in Import-AC mode whose write of ems_power_set was dropped
\* by the write guard or failed, the applier's last_setpoint_w and
\* last_setpoint_ts are what they were before the tick.
C21_LastSetpointOnlyOnLandedWrite ==
    (applied.ticked /\ applied.mode = IMPORT_AC_MODE /\ ~applied.set_landed) =>
        /\ ems.last_setpoint_w = applied.last_w
        /\ ems.last_setpoint_ts = IF applied.had_ts THEN clock - applied.dt ELSE NoTs

\* C22: in_charge_window is true iff the time of day lies in some resolved
\* window, a window (s,e) covering the e-s (mod 24 h) after s, so that s<=e
\* covers [s,e) and s>e covers [s,24:00) and [00:00,e); for 23:30-04:30 it is
\* true at 00:15 and 23:30 and false at 04:30; with no windows it is false.
C22_InChargeWindow ==
    wq.asked =>
        /\ wq.res = (\E i \in 1 .. Len(wq.windows) :
                        LET s == wq.windows[i][1] * MinuteMs
                            e == wq.windows[i][2] * MinuteMs
                        IN (wq.tod - s) % DayMs < (e - s) % DayMs)
        /\ wq.windows = <<>> => ~wq.res
        /\ wq.windows = << <<1410, 270>> >> =>
             /\ wq.tod \in {15 * MinuteMs, 1410 * MinuteMs} => wq.res
             /\ wq.tod = 270 * MinuteMs => ~wq.res

C22_Witness ==
    /\ wq.asked
    /\ wq.windows = << <<1410, 270>> >>
    /\ wq.tod = 15 * MinuteMs
    /\ wq.res

\* C23: on every apply tick that starts with a hold latched and falls before
\* the recorded hold_until, decide returns (IMPORT_AC, 0).
C23_HoldUntilWindowEnd ==
    (applied.ticked /\ applied.held) =>
        (applied.mode = IMPORT_AC_MODE /\ applied.dec_xset = 0)

\* C24: every WARNING alert emitted so far is still pending in the batch or
\* was in a batch the backend accepted; a flush whose post failed leaves its
\* alerts pending.
C24_FailedBatchStaysPending ==
    /\ whist.emitted \subseteq (Range(wmon.batch) \cup whist.accepted)
    /\ (whist.flushed /\ ~whist.post_ok) => Range(whist.sent) \subseteq Range(wmon.batch)

\* C25: after on_message has handled a message that is bad JSON, of unknown
\* type or a task with a malformed field, no exception has left the handler
\* and the task records are what they were.
C25_InvalidMessageDropped ==
    mres.invalid => (~mres.raised /\ ~mres.changed)

\* C26: the task limit and the charge windows one controller tick uses come
\* from one state of the store: the state before or the state after a whole
\* mutation that ran during the tick.
C26_TickReadsOneSnapshot ==
    snap.pc = "done" =>
        \E S \in snap.seen :
            /\ snap.cap_kw = GetTaskCapKw(S, EmsUnit, curday)
            /\ snap.windows = GetChargeWindows(S, EmsUnit, curday)

\* C27: no worker waits for another unit's write: while one unit's write
\* action is in flight, a worker of another unit that has started an attempt
\* is not still standing at the guard's lock after time has passed.
C27_NoWorkerWaitsForAnother ==
    \A u \in Units, w \in Units :
        (u # w /\ th[w].pc = "writing" /\ lock = w /\ th[u].pc = "stamped")
            => clock = th[u].now

\* C28 as stated: determine_mode returns idle when edge_status is not active
\* or an error occurs; otherwise idle for battery_mode idle, forced_charging
\* for forced_charging, and active in every other case, battery_mode absent
\* included.
C28_AbsentModeIsActive ==
    mq.asked =>
        mq.res = IF mq.status = NotAString \/ mq.bm = NotAMapping THEN "idle"
                 ELSE IF mq.status # Unset /\ Lower(mq.status) # "active" THEN "idle"
                 ELSE IF mq.bm = "idle" THEN "idle"
                 ELSE IF mq.bm = "forced_charging" THEN "forced_charging"
                 ELSE "active"

\* C28 (amended): determine_mode returns idle when edge_status is not active
\* or an error occurs; otherwise idle when battery_mode is idle or absent
\* from the config, forced_charging when it is forced_charging, and active
\* for any other value.
C28_DetermineMode ==
    mq.asked =>
        mq.res = IF mq.status = NotAString \/ mq.bm = NotAMapping THEN "idle"
                 ELSE IF mq.status # Unset /\ Lower(mq.status) # "active" THEN "idle"
                 ELSE IF mq.bm \in {"idle", Unset} THEN "idle"
                 ELSE IF mq.bm = "forced_charging" THEN "forced_charging"
                 ELSE "active"
C28_Witness ==
    mq.asked /\ mq.status = "Active" /\ mq.bm = Unset /\ mq.res = "idle"

\* C29: for every sequence of start() and stop() calls on the poster no call
\* fails, and the poster is active with a running flush worker exactly when
\* the most recent call was start().
C29_StartStopAnyOrder ==
    /\ ~poster.failed
    /\ poster.last = "start" =>
         (IsActive(poster) /\ poster.thread = "running")
    /\ poster.last # "start" => (~IsActive(poster) /\ poster.thread # "running")

\* C30: an attempt whose write action does not raise is accepted (the action
\* is invoked, true is returned) whenever its value differs from the last
\* accepted value of the address, the last accepted write to the address is
\* at least 0.25 s old or there is none, and fewer than 5 writes were
\* accepted in the guard's current 1-second window; the first write to a
\* fresh address is such an attempt.
C30_AcceptedWhenAllowed ==
    (outcome.due /\ ~outcome.raised) => (outcome.ret /\ outcome.invoked)
C30_Witness ==
    /\ outcome.due /\ outcome.ret /\ outcome.invoked
    /\ DOMAIN landed = {100}
    /\ landed[100].value = 8
    /\ landed[100].at = StartClock + 2 * Quantum
    /\ wlog = <<StartClock, StartClock + 2 * Quantum>>

\* C31 as stated: a dynamic payload N with a valid service_day is in its slot
\* after the call whenever the slot was empty, or N carries override and the
\* stored entry does not, or the two do not share a non-empty idempotency_key.
C31_TakenPayloadHeld ==
    (top.kind = "dynamic" /\ (top.fresh \/ (top.occupied /\ ~top.samekey))) => top.holds

\* C31 (amended): the same, for a service_day that is today or tomorrow.
C31_TakenPayloadHeldLive ==
    (top.kind = "dynamic" /\ top.live /\ (top.fresh \/ (top.occupied /\ ~top.samekey)))
        => top.holds
C31_Witness ==
    top.kind = "dynamic" /\ top.live /\ top.occupied /\ ~top.samekey /\ top.overridden
    /\ top.holds /\ top.took

\* C32: a static payload without override is rejected, and the store left as
\* it was, when the unit's stored static entry has override; in every other
\* case the stored static entry is the payload's entry after the call.
C32_StaticOverrideProtected ==
    top.kind = "static" =>
        IF top.overridden THEN top.kept /\ ~top.holds ELSE top.holds
C32_Witness ==
    top.kind = "static" /\ top.occupied /\ top.overridden /\ top.kept

\* the call of decide was made at an instant inside a charge window, and the
\* end of the first covering window that follows the instant
C33_InWindow ==
    \E i \in 1 .. Len(dq.windows) :
        (dq.now - dq.windows[i][1] * MinuteMs) % DayMs
            < ((dq.windows[i][2] - dq.windows[i][1]) * MinuteMs) % DayMs
C33_WindowEnd ==
    LET covering == {i \in 1 .. Len(dq.windows) :
                        (dq.now - dq.windows[i][1] * MinuteMs) % DayMs
                            < ((dq.windows[i][2] - dq.windows[i][1]) * MinuteMs) % DayMs}
        first == CHOOSE i \in covering : \A j \in covering : i <= j
    IN dq.now + ((dq.windows[first][2] * MinuteMs - dq.now) % DayMs)

\* C33: inside a charge window with soc >= 0.99 of the target, decide returns
\* (IMPORT_AC, 0); a hold_until that is unset or has passed becomes the end of
\* the covering window, which lies strictly after now (today, or tomorrow for
\* a window over midnight entered before midnight); a hold_until still ahead
\* is left as it is.
C33_HoldLatchedToWindowEnd ==
    (dq.asked /\ C33_InWindow /\ dq.soc * 10 >= dq.st.target_soc_percent * 99) =>
        /\ dq.mode = IMPORT_AC_MODE /\ dq.xset = 0
        /\ IF dq.hold0 = NoTs \/ dq.now >= dq.hold0
           THEN dq.hold = C33_WindowEnd /\ dq.hold > dq.now
           ELSE dq.hold = dq.hold0
C33_Witness ==
    /\ dq.asked /\ dq.windows = << <<1410, 270>> >> /\ dq.soc = 990
    /\ dq.now = DecideDay * DayMs + 1410 * MinuteMs
    /\ dq.hold0 = dq.now
    /\ dq.hold = (DecideDay + 1) * DayMs + 270 * MinuteMs

\* C34: at an instant in no charge window decide returns (AUTO, 0) and a
\* hold_until that has passed is cleared; the mode is IMPORT_AC exactly when
\* the instant is inside a charge window, whatever SoC, PV power and settings.
C34_AutoOutsideWindows ==
    dq.asked =>
        /\ (dq.mode = IMPORT_AC_MODE) <=> C33_InWindow
        /\ ~C33_InWindow =>
             /\ dq.mode = AUTO_MODE /\ dq.xset = 0
             /\ (dq.hold0 # NoTs /\ dq.now >= dq.hold0) => dq.hold = NoTs
C34_Witness ==
    /\ dq.asked /\ dq.windows = << <<1410, 270>> >> /\ dq.soc = 792
    /\ dq.now = DecideDay * DayMs + 270 * MinuteMs
    /\ dq.hold0 = dq.now /\ dq.hold = NoTs /\ dq.mode = AUTO_MODE

\* C35: commissioning is marked done only after all of its writes have landed
\* on the device; while one has not, commissioned stays false.
C35_CommissionedAfterWritesLanded ==
    ems.commissioned => applied.comm_landed

\* C36: over every scan, count grows by exactly 1 when the alert enters
\* ACTIVE (from CLEAR or from RESOLVED) and is unchanged otherwise; event_id
\* is assigned when the alert first leaves CLEAR and never changes afterwards.
C36_CountAndEventId ==
    ascan.n > 0 =>
        /\ alert.count = ascan.count0
                         + (IF ascan.from # STATE_ACTIVE /\ ascan.to = STATE_ACTIVE
                            THEN 1 ELSE 0)
        /\ ascan.event_id0 # NoTs => alert.event_id = ascan.event_id0
        /\ (alert.event_id # NoTs) <=> (alert.state # STATE_CLEAR)
C36_Witness ==
    /\ ascan.from = STATE_RESOLVED /\ ascan.to = STATE_ACTIVE
    /\ ascan.count0 = 1 /\ alert.count = 2
    /\ alert.event_id # NoTs /\ alert.event_id = ascan.event_id0

\* C37: while an alert stays ACTIVE with its condition observed, no heartbeat
\* is emitted before the episode is ACTIVE_REEMIT_SEC old, and two heartbeats
\* are at least ACTIVE_REEMIT_SEC apart.
C37_HeartbeatRateLimited ==
    ascan.emit = Heartbeat =>
        /\ ascan.now - ascan.episode >= ACTIVE_REEMIT_SEC * 1000
        /\ ascan.prevbeat # NoTs => ascan.now - ascan.prevbeat >= ACTIVE_REEMIT_SEC * 1000

\* C38: a write of a unit is not dropped as a duplicate or as too soon unless
\* the unit's own device already holds the value at that address or received
\* its own last write to the address less than a register interval ago.
C38_UnitsIndependent ==
    (uw.res = "dropped" /\ uw.why \in {"dedupe", "interval"}) => uw.own

\* C40: a null-payload update_task copies forward in time only: every day
\* slot it fills is the day of the copied entry or a later day.
C40_CopyForwardOnly ==
    top.kind = "null" => \A d \in top.filled : top.src <= d

\* C39: the emitted non-heartbeat states of an alert alternate ACTIVE,
\* RESOLVED, ACTIVE, ... starting with ACTIVE; a heartbeat is emitted only by
\* a pass that finds the alert ACTIVE and leaves it ACTIVE; an alert that has
\* left CLEAR is never CLEAR again.
C39_EmissionsAlternate ==
    /\ ascan.emit = STATE_ACTIVE => ascan.prevemit \in {NoEmit, STATE_RESOLVED}
    /\ ascan.emit = STATE_RESOLVED => ascan.prevemit = STATE_ACTIVE
    /\ ascan.emit = Heartbeat => ascan.from = STATE_ACTIVE /\ ascan.to = STATE_ACTIVE
    /\ ascan.from # STATE_CLEAR => ascan.to # STATE_CLEAR
    /\ ascan.lastemit # NoEmit => alert.state # STATE_CLEAR

C39_Witness ==
    /\ ascan.emit = STATE_ACTIVE /\ ascan.prevemit = STATE_RESOLVED
    /\ ascan.lastbeat # NoTs
    /\ alert.state = STATE_ACTIVE

\* C1: every value the applier writes to ems_power_set is at least 0 and at
\* most the effective max_charge_w of the tick that writes it, also when
\* max_charge_w was changed since the tick before.
C1_SetpointWithinMaxCharge ==
    (applied.ticked /\ applied.set_landed) =>
        /\ applied.set_value >= 0
        /\ applied.max_charge_w > 0 => applied.set_value <= applied.max_charge_w

C3_MinIntervalPerRegister ==
    \A a \in DOMAIN landed : ~landed[a].close

\* C4: any rolling interval of 1 second contains at most 5 accepted writes
\* (wlog holds the accepted writes of the second that ends now).
C4_RollingRateCap ==
    Len(wlog) <= MAX_WRITES_PER_SEC

\* C5: an attempt whose value equals the value of the last accepted write to
\* the address is dropped: it returns false and the write action is not
\* invoked, however long ago that write was.
C5_DedupDrops ==
    outcome.dup => (~outcome.invoked /\ ~outcome.ret)
\* a duplicate arriving a full second or more after the write it repeats, dropped
C5_Witness ==
    outcome.dup /\ outcome.aged /\ ~outcome.invoked /\ ~outcome.ret

\* C6: when the write action raises, the guard records nothing and the failure
\* reaches the caller as an error, not as the return value of a policy drop.
C6_FailureSurfaced ==
    outcome.raised => (outcome.kept /\ outcome.surfaced)

\* ----------------------------------------------------- task store claims
\* C7: immediately after any store mutation completes (dynamic or static
\* update_task, rejected update, null-payload fallback, complete_task) no
\* dynamic entry exists for a day other than today or tomorrow.
C7_OnlyTodayTomorrowAfterMutation ==
    top.kind # "none" =>
        \A cid \in DOMAIN store.dyn : DOMAIN store.dyn[cid] \subseteq {curday, curday + 1}

\* C8: task merge is idempotent under replay: from every reachable store and
\* for every payload, update_task applied twice (the replay at the same or at
\* a later instant of the day) leaves the store that one application leaves.
C8_MergeIdempotent ==
    \A cid \in TaskUnits, p \in Payloads(curday), later \in {tnow, tnow + 1} :
        UpdateTaskOp(UpdateTaskOp(store, cid, p, curday, tnow), cid, p, curday, later)
            = UpdateTaskOp(store, cid, p, curday, tnow)

\* C9: once a dynamic slot holds an override=true entry, a later payload for
\* the slot with override=false is rejected and the entry is unchanged,
\* whatever its idempotency_key and revision.
C9_OverrideNotSuperseded ==
    top.overridden => top.kept

\* C10 as stated: a same-key payload N that does not supersede by override
\* replaces the stored entry E iff N.revision > E.revision or the revisions tie
\* and N.updated_at is newer; otherwise E is unchanged.
C10_SameKeyRevisionWins ==
    top.samekey => ((top.took <=> top.newer) /\ (~top.newer => top.kept))

\* C10 amended: the same for a slot of today or tomorrow (the day-GC that ends
\* update_task empties a slot of any other day); there the stored revision
\* never decreases.
C10_SameKeyRevisionWinsLive ==
    (top.samekey /\ top.live) =>
        ((top.took <=> top.newer) /\ (~top.newer => top.kept) /\ ~top.revdown)
\* a same-key payload that won its slot of today or tomorrow
C10_Witness ==
    top.samekey /\ top.live /\ top.newer /\ top.took

====
